---- MODULE Spec2Model ----
(***************************************************************************)
(* The MCP tool gateway (mcp-server) and the permission-constrained agent  *)
(* wrappers (agent-workflows) as a state machine.                          *)
(*                                                                         *)
(* Strings that the code inspects character by character (paths) are       *)
(* sequences of tokens: "/" is the separator, "." a dot, every other token *)
(* a run of ordinary characters.  "../etc" is <<".", ".", "/", "etc">>.    *)
(***************************************************************************)
EXTENDS Integers, Sequences, FiniteSets, TLC

\* ------------------------------------------------------------------ bounds

\* Gateway requests accepted in one behaviour (they may all be in flight).
MaxCalls == 2
\* Longest caller-supplied path, in tokens, enumerated by SpecOneCall.
MaxPathLen == 3
\* Tool-call attempts the agents' reasoning loops make in one behaviour.
MaxAttempts == 2
\* register calls made on one registry.
MaxRegisters == 3
\* Words in a task text handed to classifyTask on its own.
MaxTaskWords == 2
\* Classifications of one task text.
MaxClassify == 2
\* GET requests answered by the gateway.
MaxGets == 2

\* ------------------------------------------------------- program constants

DefaultMaxBytes == 10000
MaxMaxBytes == 1000000
MaxContentLen == 100000

\* A JSON field the caller did not send / a value the code left undefined.
Absent == [t |-> "undefined"]

\* --------------------------------------------------------- string helpers

SEP == "/"
DOT == "."

RECURSIVE SplitFrom(_, _, _)
\* s.split("/") from position i on, cur being the segment read so far.
SplitFrom(s, i, cur) ==
    IF i > Len(s) THEN <<cur>>
    ELSE IF s[i] = SEP THEN <<cur>> \o SplitFrom(s, i + 1, <<>>)
    ELSE SplitFrom(s, i + 1, Append(cur, s[i]))

Split(s) == SplitFrom(s, 1, <<>>)

RECURSIVE JoinSegs(_)
\* segs.join("/")
JoinSegs(segs) ==
    IF Len(segs) = 0 THEN <<>>
    ELSE IF Len(segs) = 1 THEN segs[1]
    ELSE segs[1] \o <<SEP>> \o JoinSegs(Tail(segs))

\* String.prototype.includes("..")
IncludesDotDot(s) == \E i \in 1..(Len(s) - 1) : s[i] = DOT /\ s[i + 1] = DOT

\* String.prototype.startsWith
StartsWith(s, prefix) ==
    /\ Len(prefix) <= Len(s)
    /\ SubSeq(s, 1, Len(prefix)) = prefix

DotSeg == <<DOT>>
DotDotSeg == <<DOT, DOT>>

RECURSIVE NormalizeSegs(_, _, _)
\* node:path normalizeString: drops empty and "." segments; ".." removes the
\* segment before it, or is kept (relative paths) / dropped (absolute paths)
\* when there is none to remove.
NormalizeSegs(segs, acc, allowAboveRoot) ==
    IF Len(segs) = 0 THEN acc
    ELSE LET seg == Head(segs)
             rest == Tail(segs)
         IN  IF seg = <<>> \/ seg = DotSeg
                THEN NormalizeSegs(rest, acc, allowAboveRoot)
             ELSE IF seg = DotDotSeg
                THEN IF Len(acc) > 0 /\ acc[Len(acc)] # DotDotSeg
                        THEN NormalizeSegs(rest, SubSeq(acc, 1, Len(acc) - 1), allowAboveRoot)
                     ELSE IF allowAboveRoot
                        THEN NormalizeSegs(rest, Append(acc, seg), allowAboveRoot)
                     ELSE NormalizeSegs(rest, acc, allowAboveRoot)
             ELSE NormalizeSegs(rest, Append(acc, seg), allowAboveRoot)

IsAbsolute(p) == Len(p) > 0 /\ p[1] = SEP

\* path.normalize (posix)
normalize(p) ==
    IF Len(p) = 0 THEN <<DOT>>
    ELSE LET isAbs == IsAbsolute(p)
             trailing == p[Len(p)] = SEP
             body == JoinSegs(NormalizeSegs(Split(p), <<>>, ~isAbs))
         IN  IF Len(body) = 0
                THEN IF isAbs THEN <<SEP>>
                     ELSE IF trailing THEN <<DOT, SEP>> ELSE <<DOT>>
             ELSE (IF isAbs THEN <<SEP>> ELSE <<>>) \o body
                  \o (IF trailing THEN <<SEP>> ELSE <<>>)

\* path.join(a, b) (posix): the non-empty arguments joined by "/", normalized.
join(a, b) ==
    IF Len(a) = 0 /\ Len(b) = 0 THEN <<DOT>>
    ELSE IF Len(a) = 0 THEN normalize(b)
    ELSE IF Len(b) = 0 THEN normalize(a)
    ELSE normalize(a \o <<SEP>> \o b)

\* The process's working directory, which path.resolve prepends to a
\* relative path.
Cwd == <<SEP, "srv">>

\* path.resolve(p) (posix): absolute, normalized, no trailing separator.
resolve(p) ==
    LET abs == IF IsAbsolute(p) THEN p
               ELSE IF Len(p) = 0 THEN Cwd ELSE Cwd \o <<SEP>> \o p
    IN  <<SEP>> \o JoinSegs(NormalizeSegs(Split(abs), <<>>, FALSE))

\* process.env.MCP_SANDBOX_DIR || '/tmp/mcp-sandbox'
SANDBOX_DIR == <<SEP, "tmp", SEP, "mcp-sandbox">>

\* The location the executors resolve a caller's path to:
\* resolve(join(SANDBOX_DIR, normalize(path))).
FullPath(path) == resolve(join(SANDBOX_DIR, normalize(path)))

\* ------------------------------------------------------------ JSON values

Str(s) == [t |-> "str", v |-> s]
Num(n) == [t |-> "num", v |-> n]
Arr(a) == [t |-> "arr", v |-> a]
Bool(b) == [t |-> "bool", v |-> b]

\* An object with no keys.
EmptyObj == [k \in {} |-> Absent]

\* {[key]: value} when the value is defined, {} otherwise: what JSON
\* serialisation keeps of a property.
Prop(key, defined, value) == IF defined THEN key :> value ELSE EmptyObj

Has(obj, key) == key \in DOMAIN obj

SeqToSet(s) == {s[i] : i \in 1..Len(s)}

\* One field-level issue of a ZodError.
Issue(field, message) == [path |-> <<field>>, message |-> message]

\* ----------------------------------------------------------- input schemas

SystemInfoCategories == {"platform", "memory", "uptime", "nodeVersion"}

\* systemInfoInputSchema.parse
systemInfoInputSchema(inputs) ==
    LET issues ==
            IF ~Has(inputs, "include") THEN <<>>
            ELSE IF inputs.include.t # "arr"
                THEN <<Issue("include", "Expected array")>>
            ELSE IF SeqToSet(inputs.include.v) \subseteq SystemInfoCategories THEN <<>>
            ELSE <<Issue("include", "Invalid enum value")>>
    IN  [ok |-> issues = <<>>,
         issues |-> issues,
         value |-> IF issues # <<>> THEN EmptyObj
                   ELSE [include |-> IF Has(inputs, "include") THEN inputs.include.v
                                     ELSE <<"platform", "nodeVersion">>]]

\* The path field without its traversal refinement.
PathIssuesNoRefine(inputs) ==
    IF ~Has(inputs, "path") THEN <<Issue("path", "Required")>>
    ELSE IF inputs.path.t # "str" THEN <<Issue("path", "Expected string")>>
    ELSE IF Len(inputs.path.v) < 1
        THEN <<Issue("path", "Path cannot be empty")>> ELSE <<>>

\* The path field shared by file-read and file-write:
\* z.string().min(1, ...).refine(p => !p.includes('..'), ...)
PathIssues(inputs) ==
    IF ~Has(inputs, "path") THEN <<Issue("path", "Required")>>
    ELSE IF inputs.path.t # "str" THEN <<Issue("path", "Expected string")>>
    ELSE (IF Len(inputs.path.v) < 1
             THEN <<Issue("path", "Path cannot be empty")>> ELSE <<>>)
         \o (IF IncludesDotDot(inputs.path.v)
                THEN <<Issue("path", "Path traversal not allowed")>> ELSE <<>>)

\* z.number().int().min(1).max(1_000_000).default(10_000)
MaxBytesIssues(inputs) ==
    IF ~Has(inputs, "maxBytes") THEN <<>>
    ELSE IF inputs.maxBytes.t # "num" THEN <<Issue("maxBytes", "Expected number")>>
    ELSE (IF inputs.maxBytes.v < 1
             THEN <<Issue("maxBytes", "Number must be greater than or equal to 1")>>
             ELSE <<>>)
         \o (IF inputs.maxBytes.v > MaxMaxBytes
                THEN <<Issue("maxBytes", "Number must be less than or equal to 1000000")>>
                ELSE <<>>)

\* z.enum([...]).default(...)
EnumIssues(inputs, field, allowed) ==
    IF ~Has(inputs, field) THEN <<>>
    ELSE IF inputs[field].t # "str" \/ inputs[field].v \notin allowed
        THEN <<Issue(field, "Invalid enum value")>>
    ELSE <<>>

Default(inputs, field, dflt) == IF Has(inputs, field) THEN inputs[field].v ELSE dflt

\* fileReadInputSchema.parse
fileReadInputSchema(inputs) ==
    LET issues == PathIssues(inputs) \o MaxBytesIssues(inputs)
                  \o EnumIssues(inputs, "encoding", {<<"utf-8">>, <<"base64">>})
    IN  [ok |-> issues = <<>>,
         issues |-> issues,
         value |-> IF issues # <<>> THEN EmptyObj
                   ELSE [path |-> inputs.path.v,
                         maxBytes |-> Default(inputs, "maxBytes", DefaultMaxBytes),
                         encoding |-> Default(inputs, "encoding", <<"utf-8">>)]]

\* z.string().max(100_000, ...)
ContentIssues(inputs) ==
    IF ~Has(inputs, "content") THEN <<Issue("content", "Required")>>
    ELSE IF inputs.content.t # "str" THEN <<Issue("content", "Expected string")>>
    ELSE IF Len(inputs.content.v) > MaxContentLen
        THEN <<Issue("content", "Content too large (max 100KB)")>>
    ELSE <<>>

BoolIssues(inputs, field) ==
    IF Has(inputs, field) /\ inputs[field].t # "bool"
        THEN <<Issue(field, "Expected boolean")>> ELSE <<>>

\* fileWriteInputSchema.parse
fileWriteInputSchema(inputs) ==
    LET issues == PathIssues(inputs) \o ContentIssues(inputs)
                  \o EnumIssues(inputs, "mode", {<<"overwrite">>, <<"append">>})
                  \o BoolIssues(inputs, "createDirs")
    IN  [ok |-> issues = <<>>,
         issues |-> issues,
         value |-> IF issues # <<>> THEN EmptyObj
                   ELSE [path |-> inputs.path.v,
                         content |-> inputs.content.v,
                         mode |-> Default(inputs, "mode", <<"overwrite">>),
                         createDirs |-> Default(inputs, "createDirs", FALSE)]]

\* ToolCallRequestSchema.parse: tool is required; inputs defaults to {};
\* intent is optional; every other key of the body is stripped.
ToolCallRequestSchema(body) ==
    IF ~Has(body, "tool")
        THEN [ok |-> FALSE, issues |-> <<Issue("tool", "Required")>>, value |-> EmptyObj]
    ELSE [ok |-> TRUE,
          issues |-> <<>>,
          value |-> [tool |-> body.tool,
                     inputs |-> IF Has(body, "inputs") THEN body.inputs ELSE EmptyObj]
                    @@ Prop("intent", Has(body, "intent"), IF Has(body, "intent") THEN body.intent ELSE <<>>)]

\* ------------------------------------------------------- tool definitions

systemInfoDefinition ==
    [name |-> "system-info", intent |-> <<"system-info documented intent">>,
     inputSchema |-> "systemInfoInputSchema", safety |-> "safe"]

fileReadDefinition ==
    [name |-> "file-read", intent |-> <<"file-read documented intent">>,
     inputSchema |-> "fileReadInputSchema", safety |-> "safe"]

fileWriteDefinition ==
    [name |-> "file-write", intent |-> <<"file-write documented intent">>,
     inputSchema |-> "fileWriteInputSchema", safety |-> "dangerous"]

\* definition.inputSchema.parse(inputs)
SchemaParse(schema, inputs) ==
    CASE schema = "systemInfoInputSchema" -> systemInfoInputSchema(inputs)
      [] schema = "fileReadInputSchema" -> fileReadInputSchema(inputs)
      [] schema = "fileWriteInputSchema" -> fileWriteInputSchema(inputs)

\* ---------------------------------------------------------- tool registry

\* register mistaken to replace the pair of a name already registered.
registerOverwrites(tools, definition, executor) ==
    [threw |-> FALSE,
     tools |-> (definition.name :> [definition |-> definition, executor |-> executor])
               @@ tools]

\* ToolRegistry.register: throws on a name already registered, otherwise
\* pairs the definition with its executor under definition.name.
register(tools, definition, executor) ==
    IF definition.name \in DOMAIN tools
        THEN [threw |-> TRUE, tools |-> tools]
    ELSE [threw |-> FALSE,
          tools |-> tools @@ (definition.name :> [definition |-> definition,
                                                  executor |-> executor])]

\* The registry as the module leaves it after its three register calls.
StartupRegistry ==
    LET r1 == register(EmptyObj, systemInfoDefinition, "systemInfoExecutor").tools
        r2 == register(r1, fileReadDefinition, "fileReadExecutor").tools
    IN  register(r2, fileWriteDefinition, "fileWriteExecutor").tools

\* ToolRegistry.has
has(tools, name) == name \in DOMAIN tools

\* ToolRegistry.get, for a name the registry has.
get(tools, name) == tools[name]

\* ToolRegistry.listDefinitions: the definitions, no executors.
listDefinitions(tools) == {tools[n].definition : n \in DOMAIN tools}

\* ------------------------------------------------------------- filesystem

\* The files the host holds: the sandbox directory with one file in it, and
\* a file outside it.
InitFs ==
    (SANDBOX_DIR :> [kind |-> "dir", content |-> <<>>])
    @@ ((SANDBOX_DIR \o <<SEP, "a">>) :> [kind |-> "file", content |-> <<"h", "i">>])
    @@ (<<SEP, "tmp", SEP, "etc">> :> [kind |-> "file", content |-> <<"s">>])

\* fs/promises readFile: the file's bytes, or a rejection.
readFile(files, fullPath) ==
    IF fullPath \notin DOMAIN files
        THEN [threw |-> TRUE, message |-> "ENOENT: no such file or directory", buffer |-> <<>>]
    ELSE IF files[fullPath].kind = "dir"
        THEN [threw |-> TRUE, message |-> "EISDIR: illegal operation on a directory", buffer |-> <<>>]
    ELSE [threw |-> FALSE, message |-> "", buffer |-> files[fullPath].content]

\* ---------------------------------------------------------------- executors

\* What an executor's promise settles to: a returned result or a rejection,
\* the filesystem as it leaves it, and the filesystem calls it made.
Returned(result, files, ops) ==
    [threw |-> FALSE, result |-> result, message |-> "", fs |-> files, ops |-> ops]

Threw(message, files, ops) ==
    [threw |-> TRUE, result |-> EmptyObj, message |-> message, fs |-> files, ops |-> ops]

\* Buffer.toString(encoding)
BufferToString(buffer, encoding) == [encoding |-> encoding, bytes |-> buffer]

\* Buffer.byteLength(content, 'utf-8')
ByteLength(content) == Len(content)

\* systemInfoExecutor.  os is the host as the os module reports it; os.uptime()
\* throws a SystemError when the host cannot report it.
systemInfoExecutor(input, context, files, os) ==
    LET cats == SeqToSet(input.include)
        used == os.total - os.free
        data == Prop("platform", "platform" \in cats, os.platform)
                @@ Prop("arch", "platform" \in cats, os.arch)
                @@ Prop("memory", "memory" \in cats,
                        [total |-> os.total, free |-> os.free, used |-> used])
                @@ Prop("uptime", "uptime" \in cats, os.uptime)
                @@ Prop("nodeVersion", "nodeVersion" \in cats, os.nodeVersion)
    IN  IF "uptime" \in cats /\ os.uptimeFails
            THEN Threw("A system error occurred: uv_uptime returned ENOSYS", files, {})
        ELSE Returned([success |-> TRUE, data |-> data], files, {})

\* The file-read executor mistaken to cut a file that is too large down to
\* the first maxBytes bytes.
fileReadExecutorTruncates(input, context, files, os) ==
    LET normalizedPath == normalize(input.path)
        fullPath == resolve(join(SANDBOX_DIR, normalizedPath))
        read == readFile(files, fullPath)
        ops == {[op |-> "readFile", path |-> fullPath]}
        kept == IF Len(read.buffer) > input.maxBytes
                    THEN SubSeq(read.buffer, 1, input.maxBytes) ELSE read.buffer
    IN  IF ~StartsWith(fullPath, resolve(SANDBOX_DIR))
            THEN Returned([success |-> FALSE, error |-> <<"Path escapes sandbox directory">>],
                          files, {})
        ELSE IF read.threw
            THEN Returned([success |-> FALSE,
                           error |-> <<"Failed to read file: ", read.message>>], files, ops)
        ELSE Returned([success |-> TRUE,
                       data |-> [path |-> normalizedPath,
                                 content |-> BufferToString(kept, input.encoding),
                                 size |-> Len(kept),
                                 encoding |-> input.encoding]],
                      files, ops)

\* fileReadExecutor
fileReadExecutor(input, context, files, os) ==
    LET normalizedPath == normalize(input.path)
        fullPath == resolve(join(SANDBOX_DIR, normalizedPath))
        read == readFile(files, fullPath)
        ops == {[op |-> "readFile", path |-> fullPath]}
    IN  IF ~StartsWith(fullPath, resolve(SANDBOX_DIR))
            THEN Returned([success |-> FALSE, error |-> <<"Path escapes sandbox directory">>],
                          files, {})
        ELSE IF read.threw
            THEN Returned([success |-> FALSE,
                           error |-> <<"Failed to read file: ", read.message>>], files, ops)
        ELSE IF Len(read.buffer) > input.maxBytes
            THEN Returned([success |-> FALSE,
                           error |-> <<"File size (", ToString(Len(read.buffer)),
                                       " bytes) exceeds limit (", ToString(input.maxBytes),
                                       " bytes)">>],
                          files, ops)
        ELSE Returned([success |-> TRUE,
                       data |-> [path |-> normalizedPath,
                                 content |-> BufferToString(read.buffer, input.encoding),
                                 size |-> Len(read.buffer),
                                 encoding |-> input.encoding]],
                      files, ops)

\* The file-write executor mistaken in the way the dry-run law forbids: it
\* writes the content whatever context.dryRun says.
fileWriteExecutorWrites(input, context, files, os) ==
    LET fullPath == resolve(join(SANDBOX_DIR, normalize(input.path)))
    IN  Returned([success |-> TRUE,
                  data |-> [path |-> normalize(input.path),
                            bytesWritten |-> ByteLength(input.content),
                            mode |-> input.mode]],
                 (fullPath :> [kind |-> "file", content |-> input.content]) @@ files,
                 {[op |-> "writeFile", path |-> fullPath]})

\* The file-write executor mistaken to do as the context says: it simulates
\* under dry-run and writes otherwise.
fileWriteExecutorObeysContext(input, context, files, os) ==
    LET fullPath == resolve(join(SANDBOX_DIR, normalize(input.path)))
        data == [path |-> normalize(input.path),
                 bytesWritten |-> ByteLength(input.content), mode |-> input.mode]
    IN  IF ~StartsWith(fullPath, resolve(SANDBOX_DIR))
            THEN Returned([success |-> FALSE, error |-> <<"Path escapes sandbox directory">>],
                          files, {})
        ELSE IF context.dryRun
            THEN Returned([success |-> TRUE, data |-> data,
                           simulatedAction |-> [would |-> input.mode,
                                                bytes |-> ByteLength(input.content),
                                                to |-> fullPath,
                                                creatingParentDirs |-> input.createDirs]],
                          files, {})
        ELSE Returned([success |-> TRUE, data |-> data],
                      (fullPath :> [kind |-> "file", content |-> input.content]) @@ files,
                      {[op |-> "writeFile", path |-> fullPath]})

\* The file-write executor mistaken to report its dry run without saying
\* what it would have done.
fileWriteExecutorSilent(input, context, files, os) ==
    LET normalizedPath == normalize(input.path)
        fullPath == resolve(join(SANDBOX_DIR, normalizedPath))
    IN  IF ~StartsWith(fullPath, resolve(SANDBOX_DIR))
            THEN Returned([success |-> FALSE, error |-> <<"Path escapes sandbox directory">>],
                          files, {})
        ELSE IF context.dryRun
            THEN Returned([success |-> TRUE,
                           data |-> [path |-> normalizedPath,
                                     bytesWritten |-> ByteLength(input.content),
                                     mode |-> input.mode]],
                          files, {})
        ELSE Returned([success |-> FALSE,
                       error |-> <<"Write operations are disabled. This tool runs in dry-run mode only.">>],
                      files, {})

\* The file-write executor mistaken to take its dry-run branch before it
\* checks the path.
fileWriteExecutorSimulatesFirst(input, context, files, os) ==
    LET normalizedPath == normalize(input.path)
        fullPath == resolve(join(SANDBOX_DIR, normalizedPath))
    IN  IF context.dryRun
            THEN Returned([success |-> TRUE,
                           data |-> [path |-> normalizedPath,
                                     bytesWritten |-> ByteLength(input.content),
                                     mode |-> input.mode],
                           simulatedAction |-> [would |-> input.mode,
                                                bytes |-> ByteLength(input.content),
                                                to |-> fullPath,
                                                creatingParentDirs |-> input.createDirs]],
                          files, {})
        ELSE IF ~StartsWith(fullPath, resolve(SANDBOX_DIR))
            THEN Returned([success |-> FALSE, error |-> <<"Path escapes sandbox directory">>],
                          files, {})
        ELSE Returned([success |-> FALSE,
                       error |-> <<"Write operations are disabled. This tool runs in dry-run mode only.">>],
                      files, {})

\* fileWriteExecutor
fileWriteExecutor(input, context, files, os) ==
    LET normalizedPath == normalize(input.path)
        fullPath == resolve(join(SANDBOX_DIR, normalizedPath))
    IN  IF ~StartsWith(fullPath, resolve(SANDBOX_DIR))
            THEN Returned([success |-> FALSE, error |-> <<"Path escapes sandbox directory">>],
                          files, {})
        ELSE IF context.dryRun
            THEN Returned([success |-> TRUE,
                           data |-> [path |-> normalizedPath,
                                     bytesWritten |-> ByteLength(input.content),
                                     mode |-> input.mode],
                           simulatedAction |-> [would |-> input.mode,
                                                bytes |-> ByteLength(input.content),
                                                to |-> fullPath,
                                                creatingParentDirs |-> input.createDirs]],
                          files, {})
        ELSE Returned([success |-> FALSE,
                       error |-> <<"Write operations are disabled. This tool runs in dry-run mode only.">>],
                      files, {})

\* tool.executor(validatedInputs, context)
Execute(executor, input, context, files, os) ==
    CASE executor = "systemInfoExecutor" -> systemInfoExecutor(input, context, files, os)
      [] executor = "fileReadExecutor" -> fileReadExecutor(input, context, files, os)
      [] executor = "fileWriteExecutor" -> fileWriteExecutor(input, context, files, os)

\* The states of the host the os module can report.
OsStates ==
    {[platform |-> "linux", arch |-> "x64", total |-> 8, free |-> 3, uptime |-> 5,
      nodeVersion |-> "v20", uptimeFails |-> f] : f \in BOOLEAN}

\* -------------------------------------------------------------- audit log

\* createAuditEntry: the entry's fields known before execution.
createAuditEntry(requestId, toolName, intent, inputs, dryRun, now) ==
    [timestamp |-> now, requestId |-> requestId, toolName |-> toolName,
     intent |-> intent, inputs |-> inputs, dryRun |-> dryRun]

\* logToolCall mistaken to drop the entry.
logToolCallDrops(log, entry) == log

\* logToolCall: one more line in the audit sink.
logToolCall(log, entry) == Append(log, entry)

\* ------------------------------------------------------------------ state

VARIABLES
    toolRegistry,   \* name -> [definition, executor]
    calls,          \* the POST /mcp/call requests received, in order of arrival
    execLog,        \* the executor invocations made, in order
    auditLog,       \* the audit sink
    fs,             \* the host's files
    fsOps,          \* the filesystem calls the executors made
    nextUuid,       \* how many randomUUID() request ids were drawn
    now,            \* the clock
    attempts,       \* the tool calls the agents' reasoning loops asked for
    regLog,         \* the register calls made on the registry, in order
    labels,         \* the classifyTask calls made, in order, with their labels
    orch,           \* the Orchestrator.run in progress: its locals and position
    steps,          \* the agent steps the orchestrator started, in order
    gets            \* the GET requests the gateway answered, with their replies

vars == <<toolRegistry, calls, execLog, auditLog, fs, fsOps, nextUuid, now, attempts,
          regLog, labels, orch, steps, gets>>

NoHeader == "(none)"

\* Fastify's request.id: the x-request-id header when the caller sends one,
\* a fresh randomUUID() otherwise.
RequestId(hdr, uuid) ==
    IF hdr # NoHeader THEN [src |-> "x-request-id", id |-> hdr]
    ELSE [src |-> "randomUUID", id |-> ToString(uuid)]

\* The dry-run derivation mistaken to honour a preference in the request.
DeriveDryRunHonoursRequest(definition, body) ==
    IF Has(body, "dryRun") THEN body.dryRun ELSE definition.safety = "dangerous"

\* The dry-run flag of an invocation's execution context.  body is the
\* request as the caller sent it.
DeriveDryRun(definition, body) == definition.safety = "dangerous"

\* The audit intent mistaken to be the tool's documented intent whatever the
\* caller supplied.
AuditIntentOfDefinition(request, definition) == definition.intent

\* intent || tool.definition.intent
AuditIntent(request, definition) ==
    IF Has(request, "intent") /\ request.intent # <<>> THEN request.intent
    ELSE definition.intent

\* The audit result mistaken to record every returned call as a success.
AuditResultAlwaysSuccess(result) == "success"

\* result.success ? 'success' : 'error'
AuditResult(result) == IF result.success THEN "success" ELSE "error"

\* The return path mistaken to describe a simulated action in every reply,
\* whether the executor populated one or not.
ReturnPathAlwaysSimulates(call, result, durationMs, log) ==
    [log |-> logToolCall(log,
                call.auditBase
                @@ [result |-> AuditResult(result), durationMs |-> durationMs]
                @@ Prop("error", Has(result, "error"),
                        IF Has(result, "error") THEN result.error ELSE <<>>)),
     status |-> IF result.success THEN 200 ELSE 422,
     response |->
        [tool |-> call.toolName, success |-> result.success,
         dryRun |-> call.context.dryRun, timestamp |-> call.context.timestamp,
         requestId |-> call.context.requestId,
         simulatedAction |-> IF Has(result, "simulatedAction") THEN result.simulatedAction
                             ELSE [would |-> <<"nothing">>]]
        @@ Prop("result", Has(result, "data"),
                IF Has(result, "data") THEN result.data ELSE EmptyObj)
        @@ Prop("error", Has(result, "error"),
                IF Has(result, "error") THEN result.error ELSE <<>>)]

\* The audit entry and the reply of an invocation whose executor returned.
ReturnPath(call, result, durationMs, log) ==
    [log |-> logToolCall(log,
                call.auditBase
                @@ [result |-> AuditResult(result), durationMs |-> durationMs]
                @@ Prop("error", Has(result, "error"),
                        IF Has(result, "error") THEN result.error ELSE <<>>)),
     status |-> IF result.success THEN 200 ELSE 422,
     response |->
        [tool |-> call.toolName, success |-> result.success,
         dryRun |-> call.context.dryRun, timestamp |-> call.context.timestamp,
         requestId |-> call.context.requestId]
        @@ Prop("result", Has(result, "data"),
                IF Has(result, "data") THEN result.data ELSE EmptyObj)
        @@ Prop("error", Has(result, "error"),
                IF Has(result, "error") THEN result.error ELSE <<>>)
        @@ Prop("simulatedAction", Has(result, "simulatedAction"),
                IF Has(result, "simulatedAction") THEN result.simulatedAction ELSE EmptyObj)]

\* The catch path mistaken to let the exception escape the handler: nothing
\* is logged and the caller gets the framework's own error reply.
CatchPathRethrows(call, errorMessage, durationMs, log) ==
    [log |-> log,
     status |-> 500,
     response |-> [statusCode |-> 500, error |-> <<"Internal Server Error">>,
                   message |-> <<errorMessage>>]]

\* The catch path mistaken to report the failure without its message.
CatchPathWithoutMessage(call, errorMessage, durationMs, log) ==
    [log |-> logToolCall(log,
                call.auditBase @@ [result |-> "error", durationMs |-> durationMs]),
     status |-> 500,
     response |->
        [tool |-> call.toolName, success |-> FALSE,
         dryRun |-> call.context.dryRun, timestamp |-> call.context.timestamp,
         requestId |-> call.context.requestId]]

\* The audit entry and the reply of an invocation whose executor threw.
CatchPath(call, errorMessage, durationMs, log) ==
    [log |-> logToolCall(log,
                call.auditBase
                @@ [result |-> "error", durationMs |-> durationMs,
                    error |-> <<errorMessage>>]),
     status |-> 500,
     response |->
        [tool |-> call.toolName, success |-> FALSE, error |-> <<errorMessage>>,
         dryRun |-> call.context.dryRun, timestamp |-> call.context.timestamp,
         requestId |-> call.context.requestId]]

\* ------------------------------------------------------ POST /mcp/call

\* How a call's executor promise settled, once it has.
NotSettled == [threw |-> FALSE, message |-> "(pending)"]

\* The test mistaken to let every input through.
ValidationNeverFails(valid) == FALSE

\* The handler's test of the input schema's verdict (the ZodError branch).
ValidationFailed(valid) == ~valid.ok

\* A request that ended before an executor was reached.
\* The handler mistaken to build the execution context before it looks the
\* tool up and validates the inputs.
EarlyReplyBuildsContext(origin, body, requestId, toolName, status, response) ==
    [origin |-> origin, body |-> body, requestId |-> requestId, startTime |-> now,
     toolName |-> toolName, pc |-> "responded", status |-> status,
     response |-> response,
     context |-> [dryRun |-> TRUE, timestamp |-> now, requestId |-> requestId],
     auditBase |-> EmptyObj, input |-> EmptyObj, executor |-> "", settled |-> NotSettled]

EarlyReply(origin, body, requestId, toolName, status, response) ==
    [origin |-> origin, body |-> body, requestId |-> requestId, startTime |-> now,
     toolName |-> toolName, pc |-> "responded", status |-> status,
     response |-> response, context |-> EmptyObj, auditBase |-> EmptyObj,
     input |-> EmptyObj, executor |-> "", settled |-> NotSettled]

\* The handler from its first line to the await of the executor: the request
\* id, the request schema, the registry lookup, the tool's input schema, the
\* execution context and the audit base; then the executor is invoked.
CallStart(origin, body, hdr) ==
    LET k == Len(calls) + 1
        requestId == RequestId(hdr, nextUuid + 1)
        parsed == ToolCallRequestSchema(body)
        request == parsed.value
        tool == get(toolRegistry, request.tool)
        valid == SchemaParse(tool.definition.inputSchema, request.inputs)
        dryRun == DeriveDryRun(tool.definition, body)
        context == [dryRun |-> dryRun, timestamp |-> now, requestId |-> requestId]
        auditBase == createAuditEntry(requestId, request.tool,
                                      AuditIntent(request, tool.definition),
                                      valid.value, dryRun, now)
    IN  /\ nextUuid' = IF hdr = NoHeader THEN nextUuid + 1 ELSE nextUuid
        /\ now' = now + 1
        /\ IF ~parsed.ok
              THEN /\ calls' = Append(calls, EarlyReply(origin, body, requestId, "", 400,
                                  [error |-> <<"Invalid request">>, details |-> parsed.issues]))
                   /\ UNCHANGED execLog
           ELSE IF ~has(toolRegistry, request.tool)
              THEN /\ calls' = Append(calls, EarlyReply(origin, body, requestId, request.tool, 404,
                                  [error |-> <<"Tool not found: ", request.tool>>]))
                   /\ UNCHANGED execLog
           ELSE IF ValidationFailed(valid)
              THEN /\ calls' = Append(calls, EarlyReply(origin, body, requestId, request.tool, 400,
                                  [error |-> <<"Invalid tool inputs">>, tool |-> request.tool,
                                   details |-> valid.issues]))
                   /\ UNCHANGED execLog
           ELSE /\ calls' = Append(calls,
                        [origin |-> origin, body |-> body, requestId |-> requestId,
                         startTime |-> now, toolName |-> request.tool, pc |-> "executing",
                         status |-> 0, response |-> EmptyObj, context |-> context,
                         auditBase |-> auditBase, input |-> valid.value,
                         executor |-> tool.executor, settled |-> NotSettled])
                /\ execLog' = Append(execLog, [call |-> k, executor |-> tool.executor,
                                               input |-> valid.value, context |-> context])
        /\ UNCHANGED <<toolRegistry, auditLog, fs, fsOps>>

\* The executor's promise settles and the handler runs to its return: the
\* audit entry is logged, then the response is returned.
CallFinish(k) ==
    /\ k \in 1..Len(calls)
    /\ calls[k].pc = "executing"
    /\ \E os \in OsStates :
        LET call == calls[k]
            out == Execute(call.executor, call.input, call.context, fs, os)
            durationMs == now - call.startTime
            done == IF out.threw THEN CatchPath(call, out.message, durationMs, auditLog)
                    ELSE ReturnPath(call, out.result, durationMs, auditLog)
        IN  /\ fs' = out.fs
            /\ fsOps' = fsOps \cup {[call |-> k, op |-> o.op, path |-> o.path] : o \in out.ops}
            /\ auditLog' = done.log
            /\ calls' = [calls EXCEPT ![k].pc = "responded",
                                      ![k].status = done.status,
                                      ![k].response = done.response,
                                      ![k].settled = [threw |-> out.threw, message |-> out.message]]
    /\ now' = now + 1
    /\ UNCHANGED <<toolRegistry, execLog, nextUuid, attempts, regLog, gets, labels, orch, steps>>

\* --------------------------------------------------------- GET routes

\* What the two GET routes publish of a definition.  The model's definitions
\* carry exactly the published fields.
Published(definition) ==
    [name |-> definition.name, intent |-> definition.intent,
     safety |-> definition.safety, inputSchema |-> definition.inputSchema]

\* GET /mcp/tools
ListTools ==
    /\ Len(gets) < MaxGets
    /\ LET tools == {Published(d) : d \in listDefinitions(toolRegistry)}
       IN  gets' = Append(gets, [route |-> "/mcp/tools", name |-> "", status |-> 200,
                                 reply |-> [tools |-> tools, count |-> Cardinality(tools)]])
    /\ UNCHANGED <<toolRegistry, calls, execLog, auditLog, fs, fsOps, nextUuid, now,
                   attempts, regLog, labels, orch, steps>>

\* The route mistaken to drop the tool it was asked about from the registry.
GetToolForgets(name) ==
    /\ Len(gets) < MaxGets
    /\ gets' = Append(gets, [route |-> "/mcp/tools/:name", name |-> name, status |-> 404,
                             reply |-> [error |-> <<"Tool not found: ", name>>]])
    /\ toolRegistry' = [n \in DOMAIN toolRegistry \ {name} |-> toolRegistry[n]]
    /\ UNCHANGED <<calls, execLog, auditLog, fs, fsOps, nextUuid, now,
                   attempts, regLog, labels, orch, steps>>

\* GET /mcp/tools/:name
GetTool(name) ==
    /\ Len(gets) < MaxGets
    /\ gets' = Append(gets,
                  IF ~has(toolRegistry, name)
                      THEN [route |-> "/mcp/tools/:name", name |-> name, status |-> 404,
                            reply |-> [error |-> <<"Tool not found: ", name>>]]
                  ELSE [route |-> "/mcp/tools/:name", name |-> name, status |-> 200,
                        reply |-> Published(get(toolRegistry, name).definition)])
    /\ UNCHANGED <<toolRegistry, calls, execLog, auditLog, fs, fsOps, nextUuid, now,
                   attempts, regLog, labels, orch, steps>>

\* ----------------------------------------------------- constrained agents

\* name -> allowedTools, as the three agent factories configure them.
AgentConfigs ==
    [SystemInspector |-> {"system-info"},
     FileAnalyst |-> {"file-read"},
     ChangeProposer |-> {"file-write"}]

AgentNames == DOMAIN AgentConfigs

\* ConstrainedAgent.canUseTool
canUseTool(agent, toolName) == toolName \in AgentConfigs[agent]

\* The wrappers mistaken to be built for every registered tool.
WrapperNamesAll(agent) == {"system-info", "file-read", "file-write"}

\* createMCPToolWrappers: one wrapper per allowed tool, and no other.
WrapperNames(agent) == AgentConfigs[agent]

WrapperCategories == {"platform", "memory", "uptime", "cpus"}

\* toolSchemas[toolName] ?? z.object({}), parsing what the reasoning loop
\* passes to the wrapper; keys the schema does not name are stripped.
WrapperSchema(toolName, inputs) ==
    LET strOk(f) == Has(inputs, f) /\ inputs[f].t = "str"
        keep(fields) == [f \in (fields \cap DOMAIN inputs) |-> inputs[f]]
    IN  CASE toolName = "system-info" ->
                [ok |-> \/ ~Has(inputs, "include")
                        \/ /\ inputs.include.t = "arr"
                           /\ SeqToSet(inputs.include.v) \subseteq WrapperCategories,
                 value |-> keep({"include"})]
          [] toolName = "file-read" ->
                [ok |-> strOk("path"), value |-> keep({"path"})]
          [] toolName = "file-write" ->
                [ok |-> strOk("path") /\ strOk("content"), value |-> keep({"path", "content"})]
          [] OTHER -> [ok |-> TRUE, value |-> EmptyObj]

\* `Agent "${agentName}" calling ${toolName}`
WrapperIntent(agent, toolName) == <<"Agent ", agent, " calling ", toolName>>

\* One tool call asked for by an agent's reasoning loop.  The loop is not
\* trusted: it may name any tool with any inputs.  The agent executor holds
\* the wrappers createMCPToolWrappers built and dispatches by name; a name
\* with no wrapper is answered to the loop as an unknown tool, inputs the
\* wrapper's schema refuses are answered as a parsing failure, and otherwise
\* the wrapper's func posts the call to the gateway.
AgentToolCall(agent, toolName, inputs) ==
    LET parsed == WrapperSchema(toolName, inputs)
        attempt(outcome, k) ==
            [agent |-> agent, tool |-> toolName, outcome |-> outcome, call |-> k]
    IN  IF toolName \notin WrapperNames(agent)
            THEN /\ attempts' = Append(attempts, attempt("unknown_tool", 0))
                 /\ UNCHANGED <<toolRegistry, calls, execLog, auditLog, fs, fsOps, nextUuid, now>>
        ELSE IF ~parsed.ok
            THEN /\ attempts' = Append(attempts, attempt("input_parsing_failed", 0))
                 /\ UNCHANGED <<toolRegistry, calls, execLog, auditLog, fs, fsOps, nextUuid, now>>
        ELSE /\ Len(calls) < MaxCalls
             /\ attempts' = Append(attempts, attempt("delegated", Len(calls) + 1))
             /\ CallStart(agent,
                          [tool |-> toolName, inputs |-> parsed.value,
                           intent |-> WrapperIntent(agent, toolName)],
                          NoHeader)

\* ------------------------------------------------------------ orchestrator

SystemKeywords == {"system", "memory", "cpu", "platform", "uptime", "health"}
FileKeywords == {"file", "read", "analyze", "content"}
ChangeKeywords == {"write", "create", "propose", "change", "modify", "update"}

\* A task text is the sequence of its words (its maximal runs of word
\* characters), so that a keyword between two \b is a word equal to it.
\* String.prototype.toLowerCase, word by word.
LowerWord(w) ==
    CASE w = "System" -> "system"
      [] w = "FILE" -> "file"
      [] w = "Write" -> "write"
      [] OTHER -> w

toLowerCase(text) == [i \in DOMAIN text |-> LowerWord(text[i])]

\* /\b(k1|k2|...)\b/.test(text)
Test(keywords, text) == \E i \in DOMAIN text : text[i] \in keywords

Count(b) == IF b THEN 1 ELSE 0

\* classifyTask mistaken to test the text as written, without lower-casing.
classifyTaskCaseSensitive(task) ==
    LET hasSystemKeywords == Test(SystemKeywords, task)
        hasFileKeywords == Test(FileKeywords, task)
        hasChangeKeywords == Test(ChangeKeywords, task)
        keywordCount == Count(hasSystemKeywords) + Count(hasFileKeywords)
                        + Count(hasChangeKeywords)
    IN  IF keywordCount > 1 THEN "composite"
        ELSE IF hasChangeKeywords THEN "change-proposal"
        ELSE IF hasFileKeywords THEN "file-analysis"
        ELSE "system-diagnostic"

\* Orchestrator.classifyTask
classifyTask(task) ==
    LET lowerTask == toLowerCase(task)
        hasSystemKeywords == Test(SystemKeywords, lowerTask)
        hasFileKeywords == Test(FileKeywords, lowerTask)
        hasChangeKeywords == Test(ChangeKeywords, lowerTask)
        keywordCount == Count(hasSystemKeywords) + Count(hasFileKeywords)
                        + Count(hasChangeKeywords)
    IN  IF keywordCount > 1 THEN "composite"
        ELSE IF hasChangeKeywords THEN "change-proposal"
        ELSE IF hasFileKeywords THEN "file-analysis"
        ELSE IF hasSystemKeywords THEN "system-diagnostic"
        ELSE "system-diagnostic"

\* The workflow mistaken to propose changes first and inspect the system last.
StagesChangeFirst == <<"change", "file", "system">>

\* The three steps of a workflow, in the order runCompositeWorkflow's
\* statements come, and the agent each one creates and runs.
Stages == <<"system", "file", "change">>

AgentOf(stage) ==
    CASE stage = "system" -> "SystemInspector"
      [] stage = "file" -> "FileAnalyst"
      [] stage = "change" -> "ChangeProposer"

\* The workflow mistaken to need every step whatever the task says.
NeedsAll(stage, lowerTask) == TRUE

\* needsSystemCheck, needsFileAnalysis, needsChangeProposal
Needs(stage, lowerTask) ==
    CASE stage = "system" -> Test(SystemKeywords, lowerTask)
      [] stage = "file" -> Test(FileKeywords, lowerTask)
      [] stage = "change" -> Test(ChangeKeywords, lowerTask)

\* The switch of run: the step of a single-purpose task type.
StageOfType(taskType) ==
    CASE taskType = "system-diagnostic" -> "system"
      [] taskType = "file-analysis" -> "file"
      [] taskType = "change-proposal" -> "change"

\* ConstrainedAgent.toolCallLog as run returns it: run empties it before the
\* executor is invoked, and nothing appends to it.
toolCallLog == <<>>

\* sections.join('\n\n---\n\n')
RECURSIVE JoinSections(_)
JoinSections(sections) ==
    IF Len(sections) = 0 THEN <<>>
    ELSE IF Len(sections) = 1 THEN sections[1]
    ELSE sections[1] \o <<"\n\n---\n\n">> \o JoinSections(Tail(sections))

\* synthesizeOutput mistaken to report the last agent's output alone.
synthesizeOutputLastOnly(taskType, results) ==
    IF Len(results) = 0 THEN <<"No agents were invoked.">>
    ELSE results[Len(results)].output

\* Orchestrator.synthesizeOutput
synthesizeOutput(taskType, results) ==
    IF Len(results) = 0 THEN <<"No agents were invoked.">>
    ELSE IF Len(results) = 1 THEN results[1].output
    ELSE LET sections == [i \in 1..Len(results) |->
                            <<"## ", ToString(i), ". ", results[i].agentName, "\n\n">>
                            \o results[i].output]
         IN  <<"# Orchestration Results (", taskType, ")\n\n">> \o JoinSections(sections)

\* No Orchestrator.run in progress.
Idle ==
    [pc |-> "idle", input |-> EmptyObj, startTime |-> 0, taskType |-> "",
     agentResults |-> <<>>, results |-> <<>>, accumulatedContext |-> <<>>,
     stage |-> "", health |-> "", result |-> EmptyObj]

\* The step mistaken to be started without waiting for it: the step after it
\* in the workflow is started in the same breath.
StartStepWithoutAwait(o, stage, task, log) ==
    LET entry(st) == [agent |-> AgentOf(st), task |-> task, status |-> "active",
                      output |-> <<>>, startTime |-> now,
                      firstAttempt |-> Len(attempts) + 1, lastAttempt |-> 0]
    IN  [orch |-> [o EXCEPT !.pc = "step", !.stage = stage],
         steps |-> IF stage = "change" THEN Append(log, entry(stage))
                   ELSE Append(Append(log, entry("change")), entry(stage))]

\* runSystemDiagnostic / runFileAnalysis / runChangeProposal up to the await
\* of agent.run(task): the agent is created and its run is started.
StartStep(o, stage, task, log) ==
    [orch |-> [o EXCEPT !.pc = "step", !.stage = stage],
     steps |-> Append(log, [agent |-> AgentOf(stage), task |-> task, status |-> "active",
                            output |-> <<>>, startTime |-> now,
                            firstAttempt |-> Len(attempts) + 1, lastAttempt |-> 0])]

\* run from the synthesis of the final output to its return.
Succeed(o, agentResults, log) ==
    [orch |-> [o EXCEPT !.pc = "returned", !.stage = "",
                        !.agentResults = agentResults,
                        !.result = [success |-> TRUE, taskType |-> o.taskType,
                                    agentResults |-> agentResults,
                                    finalOutput |-> synthesizeOutput(o.taskType, agentResults),
                                    totalDurationMs |-> now - o.startTime]],
     steps |-> log]

\* The stages that come after a stage in runCompositeWorkflow and that the
\* task needs; after == 0 is the start of the workflow.
LaterStages(after, lowerTask) ==
    {i \in (after + 1)..Len(Stages) : Needs(Stages[i], lowerTask)}

\* `${input.task}\n\nContext: ${accumulatedContext}`
CompositeTask(task, accumulatedContext) == task \o <<"\n\nContext: ">> \o accumulatedContext

\* runCompositeWorkflow from the statement after stage number `after` to its
\* next await, or to its return and on to the return of run.
runCompositeWorkflow(o, after, log) ==
    LET later == LaterStages(after, toLowerCase(o.input.task))
        next == CHOOSE i \in later : \A j \in later : i <= j
    IN  IF later = {} THEN Succeed(o, o.agentResults \o o.results, log)
        ELSE StartStep(o, Stages[next], CompositeTask(o.input.task, o.accumulatedContext), log)

StageNumber(stage) == CHOOSE i \in 1..Len(Stages) : Stages[i] = stage

\* The workflow mistaken to pass no step's output on.
AccumulateNothing(accumulatedContext, stage, output) == accumulatedContext

\* accumulatedContext += `\n\nSystem Info: ${result.output}` and its like.
Accumulate(accumulatedContext, stage, output) ==
    CASE stage = "system" -> accumulatedContext \o <<"\n\nSystem Info: ">> \o output
      [] stage = "file" -> accumulatedContext \o <<"\n\nFile Analysis: ">> \o output
      [] stage = "change" -> accumulatedContext

\* Orchestrator.run to its first await: the health check is sent.
OrchRun(input) ==
    /\ orch.pc = "idle"
    /\ orch' = [Idle EXCEPT !.pc = "health", !.input = input, !.startTime = now]
    /\ UNCHANGED <<toolRegistry, calls, execLog, auditLog, fs, fsOps, nextUuid, now,
                   attempts, regLog, gets, labels, steps>>

\* The reply run reports when the gateway is not healthy.
Unavailable(o) ==
    [success |-> FALSE, taskType |-> "system-diagnostic", agentResults |-> <<>>,
     finalOutput |-> <<>>, totalDurationMs |-> now - o.startTime,
     error |-> <<"MCP server is not available. Please ensure it is running.">>]

\* MCPClient.healthCheck: response.ok of GET /health, and false when the
\* request fails or times out.
healthCheck(outcome) == IF outcome = "unreachable" THEN FALSE ELSE outcome = "ok"

\* The test of the health check mistaken to let every run through.
NotHealthyIgnored(healthy) == FALSE

\* if (!healthy)
NotHealthy(healthy) == ~healthy

\* The task type mistaken to be detected from the text whatever the caller
\* supplied.
ResolveTaskTypeAlwaysClassifies(input) == classifyTask(input.task)

\* input.taskType ?? this.classifyTask(input.task)
ResolveTaskType(input) ==
    IF Has(input, "taskType") THEN input.taskType ELSE classifyTask(input.task)

\* healthCheck settles and run goes on to its next await or to its return:
\* the task type is resolved and the first step is started.
OrchHealth(outcome) ==
    /\ orch.pc = "health"
    /\ LET healthy == healthCheck(outcome)
           explicit == Has(orch.input, "taskType")
           taskType == ResolveTaskType(orch.input)
           o == [orch EXCEPT !.taskType = taskType, !.health = outcome,
                             !.accumulatedContext =
                                 IF taskType = "composite" /\ Has(orch.input, "context")
                                     THEN orch.input.context ELSE <<>>]
           go == IF taskType = "composite" THEN runCompositeWorkflow(o, 0, steps)
                 ELSE StartStep(o, StageOfType(taskType), orch.input.task, steps)
       IN  IF NotHealthy(healthy)
               THEN /\ orch' = [orch EXCEPT !.pc = "returned", !.health = outcome,
                                            !.result = Unavailable(orch)]
                    /\ UNCHANGED <<labels, steps>>
           ELSE /\ labels' = IF explicit THEN labels
                              ELSE Append(labels, [task |-> orch.input.task, label |-> taskType])
                /\ orch' = go.orch
                /\ steps' = go.steps
    /\ UNCHANGED <<toolRegistry, calls, execLog, auditLog, fs, fsOps, nextUuid, now,
                   attempts, regLog, gets>>

\* The reasoning loop of the agent whose step is running asks for a tool; it
\* asks for one tool at a time and waits for the wrapper's answer.
OrchToolCall(toolName, inputs) ==
    /\ orch.pc = "step"
    /\ Len(attempts) < MaxAttempts
    /\ \A k \in 1..Len(calls) : calls[k].pc = "responded"
    /\ AgentToolCall(AgentOf(orch.stage), toolName, inputs)
    /\ UNCHANGED <<regLog, gets, labels, orch, steps>>

\* The step's record once agent.run has settled.
Settle(log, status, output) ==
    [log EXCEPT ![Len(log)].status = status, ![Len(log)].output = output,
                ![Len(log)].lastAttempt = Len(attempts)]

\* agent.run returns its output: the step's function returns its result and
\* run goes on to its next await or to its return.
OrchStepReturns(output) ==
    /\ orch.pc = "step"
    /\ \A k \in 1..Len(calls) : calls[k].pc = "responded"
    /\ LET result == [agentName |-> AgentOf(orch.stage), output |-> output,
                      toolCalls |-> toolCallLog,
                      durationMs |-> now - steps[Len(steps)].startTime]
           log == Settle(steps, "returned", output)
           go == IF orch.taskType = "composite"
                     THEN runCompositeWorkflow(
                              [orch EXCEPT !.results = Append(@, result),
                                           !.accumulatedContext =
                                               Accumulate(@, orch.stage, output)],
                              StageNumber(orch.stage), log)
                 ELSE Succeed(orch, Append(orch.agentResults, result), log)
       IN  /\ orch' = go.orch
           /\ steps' = go.steps
    /\ UNCHANGED <<toolRegistry, calls, execLog, auditLog, fs, fsOps, nextUuid, now,
                   attempts, regLog, gets, labels>>

\* error instanceof Error ? error.message : 'Unknown error'
ErrorMessage(thrown) == IF thrown.isError THEN thrown.message ELSE "Unknown error"

\* The catch block of run mistaken to report the results gathered so far.
CaughtWithPartialResults(o, thrown) ==
    [success |-> FALSE,
     taskType |-> IF Has(o.input, "taskType") THEN o.input.taskType ELSE "system-diagnostic",
     agentResults |-> o.agentResults \o o.results,
     finalOutput |-> <<>>, totalDurationMs |-> now - o.startTime,
     error |-> <<ErrorMessage(thrown)>>]

\* The catch block of run mistaken to throw what it caught on to the caller:
\* the promise of run is rejected and there is no result.
CaughtRethrows(o, thrown) == [rejected |-> thrown]

\* The catch block of run.
Caught(o, thrown) ==
    [success |-> FALSE,
     taskType |-> IF Has(o.input, "taskType") THEN o.input.taskType ELSE "system-diagnostic",
     agentResults |-> o.agentResults,
     finalOutput |-> <<>>, totalDurationMs |-> now - o.startTime,
     error |-> <<ErrorMessage(thrown)>>]

\* The router mistaken to run a step that threw once more.
OrchStepThrowsAndRetries(thrown) ==
    /\ orch.pc = "step"
    /\ Len(steps) < Len(Stages) + 1
    /\ steps' = Append(Settle(steps, "threw", <<>>),
                       [steps[Len(steps)] EXCEPT !.firstAttempt = Len(attempts) + 1])
    /\ UNCHANGED <<toolRegistry, calls, execLog, auditLog, fs, fsOps, nextUuid, now,
                   attempts, regLog, gets, labels, orch>>

\* The creation of the agent or agent.run throws: the exception leaves the
\* step's function and the workflow, and run's catch block returns.
OrchStepThrows(thrown) ==
    /\ orch.pc = "step"
    /\ steps' = Settle(steps, "threw", <<>>)
    /\ orch' = [orch EXCEPT !.pc = "returned", !.stage = "", !.result = Caught(orch, thrown)]
    /\ UNCHANGED <<toolRegistry, calls, execLog, auditLog, fs, fsOps, nextUuid, now,
                   attempts, regLog, gets, labels>>

\* ------------------------------------------------------------------ inputs

A == <<"a">>

\* Paths a caller may send: a file, a missing file, the root under several
\* spellings, an absolute-looking path, a trailing separator, traversals, and
\* a name that merely contains two dots.
PathSamples ==
    {A, <<"b">>, <<DOT>>, <<>>, <<SEP, "a">>, <<"a", SEP>>,
     <<DOT, DOT, SEP, "etc">>, <<"a", SEP, DOT, DOT, SEP, DOT, DOT, SEP, "etc">>,
     <<"a", DOT, DOT, "a">>}

SystemInfoInputs ==
    {EmptyObj,
     [include |-> Arr(<<"memory">>)],
     [include |-> Arr(<<"platform", "uptime">>)],
     [include |-> Arr(<<"cpus">>)],
     [include |-> Str(<<"memory">>)]}

FileReadInputs ==
    {[path |-> Str(p)] : p \in PathSamples}
    \cup {EmptyObj,
          [path |-> Num(1)],
          [path |-> Str(A), maxBytes |-> Num(0)],
          [path |-> Str(A), maxBytes |-> Num(1)],
          [path |-> Str(A), encoding |-> Str(<<"base64">>)]}

FileWriteInputs ==
    {[path |-> Str(p), content |-> Str(<<"x">>)] : p \in PathSamples}
    \cup {[path |-> Str(A)],
          [path |-> Str(A), content |-> Str(<<"x", "y">>), mode |-> Str(<<"append">>),
           createDirs |-> Bool(TRUE)],
          [path |-> Str(A), content |-> Str(<<"x">>), dryRun |-> Bool(FALSE)]}

Body(tool, inputs) == [tool |-> tool, inputs |-> inputs]

\* One well-formed request per registered tool.
BaseBodies ==
    {Body("system-info", [include |-> Arr(<<"memory">>)]),
     Body("file-read", [path |-> Str(A)]),
     Body("file-write", [path |-> Str(A), content |-> Str(<<"x">>)])}

\* The request bodies a caller of the HTTP interface may post: every input
\* above for its tool, a body with no tool, a body with no inputs, a tool
\* that is not registered, and the well-formed requests with an intent and
\* with a dry-run preference the request schema does not know.
WideBodies ==
    {Body("system-info", i) : i \in SystemInfoInputs}
    \cup {Body("file-read", i) : i \in FileReadInputs}
    \cup {Body("file-write", i) : i \in FileWriteInputs}
    \cup {[inputs |-> EmptyObj], [tool |-> "system-info"], Body("no-such-tool", EmptyObj)}
    \cup {b @@ [intent |-> i] : b \in BaseBodies, i \in {<<>>, <<"caller intent">>}}
    \cup {b @@ [dryRun |-> d] : b \in BaseBodies, d \in BOOLEAN}

\* The bodies posted where several requests are in flight: one for each way
\* a request can end, for each tool.
Bodies ==
    {Body("system-info", [include |-> Arr(<<"memory">>)]) @@ [dryRun |-> TRUE],
     Body("system-info", [include |-> Arr(<<"platform", "uptime">>)]),
     Body("system-info", [include |-> Arr(<<"cpus">>)]),
     Body("file-read", [path |-> Str(A)]) @@ [intent |-> <<"caller intent">>],
     Body("file-read", [path |-> Str(<<"b">>)]),
     Body("file-read", [path |-> Str(<<DOT>>)]),
     Body("file-read", [path |-> Str(<<DOT, DOT, SEP, "etc">>)]),
     Body("file-read", [path |-> Str(A), maxBytes |-> Num(1)]),
     Body("file-write", [path |-> Str(A), content |-> Str(<<"x">>)]) @@ [dryRun |-> FALSE],
     Body("file-write", [path |-> Str(<<DOT>>), content |-> Str(<<"x">>)]) @@ [intent |-> <<>>],
     Body("file-write", [path |-> Str(<<DOT, DOT, SEP, "etc">>), content |-> Str(<<"x">>)]),
     Body("file-write", [path |-> Str(A)]),
     Body("no-such-tool", EmptyObj),
     [inputs |-> EmptyObj]}

HeaderIds == {"client-chosen-id"}

\* What a reasoning loop may ask its agent's executor for.
AgentToolNames == DOMAIN StartupRegistry \cup {"no-such-tool"}

AgentInputs ==
    {EmptyObj,
     [include |-> Arr(<<"cpus">>)],
     [path |-> Str(A)],
     [path |-> Str(A), content |-> Str(<<"x">>)]}

\* Every string of at most n path tokens.
PathAlphabet == {SEP, DOT, "a"}

PathsUpTo(n) == UNION {[1..m -> PathAlphabet] : m \in 0..n}

\* ---------------------------------------------------------- specifications

Init ==
    /\ toolRegistry = StartupRegistry
    /\ calls = <<>>
    /\ execLog = <<>>
    /\ auditLog = <<>>
    /\ fs = InitFs
    /\ fsOps = {}
    /\ nextUuid = 0
    /\ now = 0
    /\ attempts = <<>>
    /\ regLog = <<>>
    /\ labels = <<>>
    /\ orch = Idle
    /\ steps = <<>>
    /\ gets = <<>>

\* A caller of the HTTP interface posts a request.
ExternalCall ==
    /\ Len(calls) < MaxCalls
    /\ \E body \in Bodies : CallStart("external", body, NoHeader)
    /\ UNCHANGED <<attempts, regLog, gets, labels, orch, steps>>

\* The same, with an x-request-id header of the caller's choosing.
ExternalCallWithId ==
    /\ Len(calls) < MaxCalls
    /\ \E hdr \in HeaderIds :
          CallStart("external", Body("file-read", [path |-> Str(A)]), hdr)
    /\ UNCHANGED <<attempts, regLog, gets, labels, orch, steps>>

AgentStep ==
    /\ Len(attempts) < MaxAttempts
    /\ \E agent \in AgentNames, toolName \in AgentToolNames, inputs \in AgentInputs :
          AgentToolCall(agent, toolName, inputs)
    /\ UNCHANGED <<regLog, gets, labels, orch, steps>>

Finish == \E k \in 1..Len(calls) : CallFinish(k)

Next == ExternalCall \/ ExternalCallWithId \/ Finish

Spec == Init /\ [][Next]_vars

\* The agents' reasoning loops are the only callers of the gateway.
NextAgents == AgentStep \/ Finish

SpecAgents == Init /\ [][NextAgents]_vars

\* One request, with any of the wide bodies or with any path of at most
\* MaxPathLen tokens for file-read and file-write, run to its response.
OneCall ==
    /\ Len(calls) = 0
    /\ \E body \in WideBodies \cup
                   {Body(tool, [path |-> Str(p), content |-> Str(<<"x">>)]) :
                        tool \in {"file-read", "file-write"}, p \in PathsUpTo(MaxPathLen)},
          hdr \in {NoHeader} \cup HeaderIds :
          CallStart("external", body, hdr)
    /\ UNCHANGED <<attempts, regLog, gets, labels, orch, steps>>

NextOneCall == OneCall \/ Finish

SpecOneCall == Init /\ [][NextOneCall]_vars

\* An executor invoked by a caller other than the request handler, with an
\* input of the executor's input type and an execution context of the
\* caller's making.
DirectInvoke(executor, input, context, os) ==
    /\ Len(execLog) = 0
    /\ LET out == Execute(executor, input, context, fs, os)
       IN  /\ execLog' = Append(execLog,
                            [call |-> 0, executor |-> executor, input |-> input,
                             context |-> context,
                             out |-> [threw |-> out.threw, message |-> out.message,
                                      result |-> out.result]])
           /\ fs' = out.fs
           /\ fsOps' = fsOps \cup {[call |-> 0, op |-> o.op, path |-> o.path] : o \in out.ops}
    /\ UNCHANGED <<toolRegistry, calls, auditLog, nextUuid, now, attempts,
                   regLog, gets, labels, orch, steps>>

\* Values of the executors' input types: any path of at most MaxPathLen
\* tokens, byte budgets around the size of the sandbox's file, both
\* encodings, both modes.
FileReadValues ==
    {[path |-> p, maxBytes |-> m, encoding |-> e] :
        p \in PathsUpTo(MaxPathLen), m \in {1, 2, 3}, e \in {<<"utf-8">>, <<"base64">>}}

FileWriteValues ==
    {[path |-> p, content |-> <<"x">>, mode |-> m, createDirs |-> c] :
        p \in PathsUpTo(MaxPathLen), m \in {<<"overwrite">>, <<"append">>}, c \in BOOLEAN}

SystemInfoValues ==
    {[include |-> i] : i \in {<<>>, <<"platform", "nodeVersion">>, <<"memory", "uptime">>}}

Contexts ==
    {[dryRun |-> d, timestamp |-> 0, requestId |-> RequestId("direct", 0)] : d \in BOOLEAN}

InvokeFileRead ==
    \E input \in FileReadValues, context \in Contexts, os \in OsStates :
        DirectInvoke("fileReadExecutor", input, context, os)

InvokeFileWrite ==
    \E input \in FileWriteValues, context \in Contexts, os \in OsStates :
        DirectInvoke("fileWriteExecutor", input, context, os)

InvokeSystemInfo ==
    \E input \in SystemInfoValues, context \in Contexts, os \in OsStates :
        DirectInvoke("systemInfoExecutor", input, context, os)

NextExecutors == InvokeFileRead \/ InvokeFileWrite \/ InvokeSystemInfo

SpecExecutors == Init /\ [][NextExecutors]_vars

\* Words of task texts: keywords of each category, in lower case and not,
\* a word that contains keywords without being one, and a word that is none.
TaskWords == {"system", "System", "memory", "file", "write", "update", "filesystem", "hello"}

TasksUpTo(n) == UNION {[1..m -> TaskWords] : m \in 0..n}

\* classifyTask applied to a task text, and applied again to the same text.
Classify ==
    /\ Len(labels) < MaxClassify
    /\ \E task \in (IF labels = <<>> THEN TasksUpTo(MaxTaskWords) ELSE {labels[1].task}) :
          labels' = Append(labels, [task |-> task, label |-> classifyTask(task)])
    /\ UNCHANGED <<toolRegistry, calls, execLog, auditLog, fs, fsOps, nextUuid, now,
                   attempts, regLog, gets, orch, steps>>

NextClassify == Classify

SpecClassify == Init /\ [][NextClassify]_vars

\* The inputs of Orchestrator.run: a task of every classification (no
\* keyword, one category, each pair, all three), with and without context,
\* and tasks with an explicit task type that the text does not suggest.
OrchTasks ==
    {<<"hello">>, <<"check", "System">>, <<"read", "file">>, <<"update", "it">>,
     <<"system", "file">>, <<"memory", "write">>, <<"file", "change">>,
     <<"system", "file", "write">>}

OrchInputs ==
    {[task |-> t] : t \in OrchTasks}
    \cup {[task |-> t, context |-> <<"given context">>] :
             t \in {<<"read", "file">>, <<"system", "file", "write">>}}
    \cup {[task |-> <<"hello">>, taskType |-> "composite"],
          [task |-> <<"check", "System">>, taskType |-> "file-analysis"],
          [task |-> <<"system", "file">>, taskType |-> "change-proposal"],
          [task |-> <<"file", "change">>, taskType |-> "composite", context |-> <<>>]}

\* What agent.run may return as the agent's final output.
StepOutputs(agent) == {<<"output of ", agent>>}

\* What the creation of an agent or agent.run may throw.
ThrownValues ==
    {[isError |-> TRUE, message |-> "OpenAI API error"],
     [isError |-> FALSE, message |-> "a thrown string"]}

\* What the reasoning loop of a running step may ask its agent's executor for.
StepToolInputs == {EmptyObj, [path |-> Str(A), content |-> Str(<<"x">>)]}

StartRun == \E input \in OrchInputs : OrchRun(input)

\* How GET /health may end: a 200, a status that is not ok, no answer.
HealthOutcomes == {"ok", "not-ok", "unreachable"}

HealthSettles == \E outcome \in HealthOutcomes : OrchHealth(outcome)

StepToolCall ==
    \E toolName \in AgentToolNames, inputs \in StepToolInputs : OrchToolCall(toolName, inputs)

StepReturns ==
    /\ orch.pc = "step"
    /\ \E output \in StepOutputs(AgentOf(orch.stage)) : OrchStepReturns(output)

StepThrows == \E thrown \in ThrownValues : OrchStepThrows(thrown)

NextOrch == StartRun \/ HealthSettles \/ StepToolCall \/ Finish \/ StepReturns \/ StepThrows

SpecOrch == Init /\ [][NextOrch]_vars

\* The gateway with all its routes: invocations, and requests for the list
\* of definitions and for one definition, of a registered name or not.
GatewayBodies ==
    BaseBodies \cup {Body("no-such-tool", EmptyObj),
                     Body("file-read", [path |-> Str(<<DOT, DOT, SEP, "etc">>)])}

Invoke ==
    /\ Len(calls) < MaxCalls
    /\ \E body \in GatewayBodies : CallStart("external", body, NoHeader)
    /\ UNCHANGED <<attempts, regLog, gets, labels, orch, steps>>

GetDefinition == \E name \in {"file-write", "no-such-tool"} : GetTool(name)

NextGateway == Invoke \/ Finish \/ ListTools \/ GetDefinition

SpecGateway == Init /\ [][NextGateway]_vars

\* A registry from its construction, empty, through any register calls: the
\* three the module makes at startup, and calls on names already taken with
\* another definition or another executor.
RegDefinitions ==
    {systemInfoDefinition, fileReadDefinition, fileWriteDefinition,
     [fileWriteDefinition EXCEPT !.safety = "safe"]}

ExecutorNames == {"systemInfoExecutor", "fileReadExecutor", "fileWriteExecutor"}

\* One register call on the registry; a call that throws leaves its caller
\* with the exception and the registry as register left it.
Register(definition, executor) ==
    /\ Len(regLog) < MaxRegisters
    /\ LET r == register(toolRegistry, definition, executor)
       IN  /\ toolRegistry' = r.tools
           /\ regLog' = Append(regLog, [definition |-> definition, executor |-> executor,
                                        threw |-> r.threw])
    /\ UNCHANGED <<calls, execLog, auditLog, fs, fsOps, nextUuid, now, attempts,
                   labels, orch, steps, gets>>

InitRegistry ==
    /\ toolRegistry = EmptyObj
    /\ calls = <<>>
    /\ execLog = <<>>
    /\ auditLog = <<>>
    /\ fs = InitFs
    /\ fsOps = {}
    /\ nextUuid = 0
    /\ now = 0
    /\ attempts = <<>>
    /\ regLog = <<>>
    /\ labels = <<>>
    /\ orch = Idle
    /\ steps = <<>>
    /\ gets = <<>>

NextRegistry ==
    \E definition \in RegDefinitions, executor \in ExecutorNames :
        Register(definition, executor)

SpecRegistry == InitRegistry /\ [][NextRegistry]_vars

\* ------------------------------------------------------------------ claims

Responded(k) == calls[k].pc = "responded"

\* The call reached an executor (its tool was found and its inputs were valid).
Executed(k) == calls[k].executor # ""

\* The call's tool was found in the registry.
Matched(k) == has(toolRegistry, calls[k].toolName)

Dangerous(toolName) == toolRegistry[toolName].definition.safety = "dangerous"

\* The audit entries of call k: the clock ticks at every request, so the
\* time a request arrived names it.
EntriesOf(k) == {i \in 1..Len(auditLog) : auditLog[i].timestamp = calls[k].startTime}

CallIds == 1..Len(calls)

\* C1: for every invocation that reaches an executor, the dryRun of the
\* execution context, of the response and of the audit entry is TRUE exactly
\* when the tool's safety class is dangerous (file-write), whatever the
\* request asked for.
C1_DryRunIsSafetyClass ==
    /\ \A i \in 1..Len(execLog) :
          LET name == calls[execLog[i].call].toolName
          IN  /\ execLog[i].context.dryRun = Dangerous(name)
              /\ execLog[i].context.dryRun = (name = "file-write")
    /\ \A k \in CallIds :
          Responded(k) /\ Executed(k) =>
             /\ Has(calls[k].response, "dryRun")
             /\ calls[k].response.dryRun = Dangerous(calls[k].toolName)
             /\ \A i \in EntriesOf(k) : auditLog[i].dryRun = Dangerous(calls[k].toolName)

\* A dangerous tool asked not to dry-run and a safe tool asked to dry-run
\* have both run and been answered.
C1_Witness ==
    \E k1, k2 \in CallIds :
        /\ Responded(k1) /\ Executed(k1) /\ calls[k1].toolName = "file-write"
        /\ Has(calls[k1].body, "dryRun") /\ calls[k1].body.dryRun = FALSE
        /\ calls[k1].response.dryRun = TRUE /\ EntriesOf(k1) # {}
        /\ Responded(k2) /\ Executed(k2) /\ calls[k2].toolName = "system-info"
        /\ Has(calls[k2].body, "dryRun") /\ calls[k2].body.dryRun = TRUE
        /\ calls[k2].response.dryRun = FALSE /\ EntriesOf(k2) # {}

\* C2: whatever file-write invocations were made, the files are what they
\* were, no write was attempted, and every answered file-write invocation is
\* a success carrying a simulatedAction or a failure.
C2_FileWriteNeverWrites ==
    /\ fs = InitFs
    /\ \A o \in fsOps : o.op # "writeFile"
    /\ \A k \in CallIds :
          Responded(k) /\ calls[k].toolName = "file-write" =>
             \/ /\ Has(calls[k].response, "success") /\ calls[k].response.success
                /\ Has(calls[k].response, "simulatedAction")
             \/ /\ calls[k].status # 200
                /\ Has(calls[k].response, "error")
                /\ Has(calls[k].response, "success") => ~calls[k].response.success

\* Two file-write invocations were answered, one simulated and one refused.
C2_Witness ==
    \E k1, k2 \in CallIds :
        /\ Responded(k1) /\ calls[k1].toolName = "file-write"
        /\ Has(calls[k1].response, "simulatedAction")
        /\ Responded(k2) /\ calls[k2].toolName = "file-write"
        /\ calls[k2].status = 400

\* C3: once the tool is found, every answered invocation attempt has exactly
\* one audit entry, whatever its outcome.
C3_OneEntryPerMatchedAttempt ==
    \A k \in CallIds :
        Responded(k) /\ Matched(k) => Cardinality(EntriesOf(k)) = 1

\* C4: a response of an executed invocation is never there without an audit
\* entry carrying its requestId, under any interleaving of the requests.
C4_AuditBeforeResponse ==
    \A k \in CallIds :
        Responded(k) /\ Executed(k) =>
            \E i \in EntriesOf(k) : auditLog[i].requestId = calls[k].response.requestId

\* A request that arrived later was answered while an earlier one is still
\* executing.
C4_Witness ==
    \E k1, k2 \in CallIds :
        /\ k1 < k2
        /\ calls[k1].pc = "executing"
        /\ Responded(k2) /\ Executed(k2) /\ EntriesOf(k2) # {}

\* C5: the audit entry and the response of an invocation agree on the tool,
\* the dryRun flag, the requestId and the outcome.
C5_EntryAgreesWithResponse ==
    \A k \in CallIds :
        Responded(k) /\ Executed(k) =>
            \A i \in EntriesOf(k) :
                /\ auditLog[i].toolName = calls[k].response.tool
                /\ auditLog[i].dryRun = calls[k].response.dryRun
                /\ auditLog[i].requestId = calls[k].response.requestId
                /\ (auditLog[i].result = "success") = calls[k].response.success
                /\ auditLog[i].result \in {"success", "error"}

\* An invocation whose executor returned a failure, and one that succeeded,
\* each with its entry.
C5_Witness ==
    \E k1, k2 \in CallIds :
        /\ Responded(k1) /\ Executed(k1) /\ ~calls[k1].response.success
        /\ ~calls[k1].settled.threw
        /\ \E i \in EntriesOf(k1) : auditLog[i].result = "error"
        /\ Responded(k2) /\ Executed(k2) /\ calls[k2].response.success
        /\ \E i \in EntriesOf(k2) : auditLog[i].result = "success"

\* C6: an executor that throws does not take the gateway down: the caller
\* gets success = false with the exception's message, the audit log gets an
\* entry with result 'error', and the gateway still accepts requests.
C6_ThrowBecomesFailure ==
    \A k \in CallIds :
        Responded(k) /\ calls[k].settled.threw =>
            /\ Has(calls[k].response, "success") /\ calls[k].response.success = FALSE
            /\ calls[k].response.error = <<calls[k].settled.message>>
            /\ \E i \in EntriesOf(k) :
                  /\ auditLog[i].result = "error"
                  /\ auditLog[i].error = <<calls[k].settled.message>>
            /\ toolRegistry = StartupRegistry
            /\ Len(calls) < MaxCalls => ENABLED ExternalCall

\* An executor threw, and a request that arrived after the failure was
\* answered with a success.
C6_Witness ==
    \E k1, k2 \in CallIds :
        /\ Responded(k1) /\ calls[k1].settled.threw
        /\ Responded(k2) /\ Executed(k2) /\ calls[k2].response.success
        /\ \E i \in EntriesOf(k1) : auditLog[i].durationMs + calls[k1].startTime < calls[k2].startTime

\* The raw inputs of call k, as the request schema hands them on.
RawInputs(k) == IF Has(calls[k].body, "inputs") THEN calls[k].body.inputs ELSE EmptyObj

\* The verdict of the matched tool's input schema on call k's raw inputs.
SchemaVerdict(k) ==
    SchemaParse(toolRegistry[calls[k].toolName].definition.inputSchema, RawInputs(k))

\* C7: a request whose inputs do not satisfy the matched tool's schema ends
\* with the invalid-input reply carrying field-level details, and no executor
\* is invoked for it.
C7_InvalidInputShortCircuits ==
    \A k \in CallIds :
        Matched(k) /\ ~SchemaVerdict(k).ok =>
            /\ Responded(k)
            /\ calls[k].status = 400
            /\ calls[k].response.error = <<"Invalid tool inputs">>
            /\ Has(calls[k].response, "details")
            /\ Len(calls[k].response.details) >= 1
            /\ \A j \in 1..Len(calls[k].response.details) :
                  Len(calls[k].response.details[j].path) = 1
            /\ \A i \in 1..Len(execLog) : execLog[i].call # k
            /\ \A o \in fsOps : o.call # k

\* Two requests with invalid inputs were refused while executors ran for
\* none of them.
C7_Witness ==
    \E k1, k2 \in CallIds :
        /\ k1 # k2
        /\ Matched(k1) /\ ~SchemaVerdict(k1).ok /\ calls[k1].status = 400
        /\ Matched(k2) /\ ~SchemaVerdict(k2).ok /\ calls[k2].status = 400
        /\ calls[k1].toolName # calls[k2].toolName

\* The path a file-read or file-write request sent, when it sent a string.
PathTools == {"file-read", "file-write"}

SentPath(k) ==
    /\ calls[k].toolName \in PathTools
    /\ Has(RawInputs(k), "path")
    /\ RawInputs(k).path.t = "str"

PathOf(k) == RawInputs(k).path.v

HasDotDotSegment(p) == DotDotSeg \in SeqToSet(Split(p))

ResolvedRoot == resolve(SANDBOX_DIR)

\* The location is the root's descendant: not the root, and below it.
StrictlyInside(full) == full # ResolvedRoot /\ StartsWith(full, ResolvedRoot \o <<SEP>>)

\* The location is neither the root nor below it.
Outside(full) == full # ResolvedRoot /\ ~StartsWith(full, ResolvedRoot \o <<SEP>>)

Escaping(p) == HasDotDotSegment(p) \/ Outside(FullPath(p))

PathEscapeMessage == <<"Path escapes sandbox directory">>

C9_AcceptedPathsStrictlyInside ==
    \A k \in CallIds :
        /\ Responded(k) /\ Executed(k) /\ calls[k].toolName \in PathTools
        /\ ~(Has(calls[k].response, "error") /\ calls[k].response.error = PathEscapeMessage)
        => StrictlyInside(FullPath(calls[k].input.path))

\* C10: a tool call naming a tool outside the agent's allow-list fails with
\* a permission-denied error, and nothing is sent to the gateway for it.
C10_DisallowedToolIsPermissionDenied ==
    \A a \in 1..Len(attempts) :
        ~canUseTool(attempts[a].agent, attempts[a].tool) =>
            /\ attempts[a].outcome = "permission_denied"
            /\ attempts[a].call = 0

\* C11: every gateway call issued on behalf of an agent names a tool of that
\* agent's allow-list: SystemInspector only system-info, FileAnalyst only
\* file-read, ChangeProposer only file-write.
C11_CallsStayInAllowList ==
    \A k \in CallIds :
        calls[k].origin \in AgentNames =>
            /\ Has(calls[k].body, "tool")
            /\ calls[k].body.tool \in AgentConfigs[calls[k].origin]
            /\ canUseTool(calls[k].origin, calls[k].body.tool)

\* An agent's call was executed and answered in a run where a reasoning loop
\* also asked for a tool outside its agent's allow-list.
C11_Witness ==
    /\ \E k \in CallIds :
          calls[k].origin \in AgentNames /\ Responded(k) /\ Executed(k)
    /\ \E a \in 1..Len(attempts) : ~canUseTool(attempts[a].agent, attempts[a].tool)

\* The register calls made before call i on the name call i carries.
EarlierOnName(i) ==
    {j \in 1..(i - 1) : regLog[j].definition.name = regLog[i].definition.name}

\* C12: a register call on a name already registered throws and leaves the
\* registry as it was; after any register calls the registry holds, for every
\* name registered, the one (definition, executor) pair of the first call
\* that named it, and nothing else.
C12_FirstRegistrationWins ==
    /\ \A i \in 1..Len(regLog) : regLog[i].threw <=> EarlierOnName(i) # {}
    /\ DOMAIN toolRegistry = {regLog[i].definition.name : i \in 1..Len(regLog)}
    /\ \A i \in 1..Len(regLog) :
          EarlierOnName(i) = {} =>
              /\ has(toolRegistry, regLog[i].definition.name)
              /\ get(toolRegistry, regLog[i].definition.name)
                    = [definition |-> regLog[i].definition, executor |-> regLog[i].executor]

\* A name was registered a second time with another definition and another
\* executor than the registry holds for it.
C12_Witness ==
    \E i \in 1..Len(regLog) :
        /\ regLog[i].threw
        /\ has(toolRegistry, regLog[i].definition.name)
        /\ get(toolRegistry, regLog[i].definition.name).definition # regLog[i].definition
        /\ get(toolRegistry, regLog[i].definition.name).executor # regLog[i].executor

\* C13: every response to a request whose tool is registered carries tool,
\* success, dryRun, timestamp and requestId, however the request ended.
C13_ResponseAlwaysCarriesFields ==
    \A k \in CallIds :
        Responded(k) /\ Matched(k) =>
            {"tool", "success", "dryRun", "timestamp", "requestId"}
                \subseteq DOMAIN calls[k].response

\* The executor invocations made with an execution context of the caller's
\* making.
DirectOf(executor) ==
    {i \in 1..Len(execLog) : execLog[i].call = 0 /\ execLog[i].executor = executor}

\* C14: the file-write executor invoked with dryRun = false refuses, for
\* every input: it returns success = false with an error, and writes nothing.
C14_FileWriteRefusesWithoutDryRun ==
    \A i \in DirectOf("fileWriteExecutor") :
        ~execLog[i].context.dryRun =>
            /\ ~execLog[i].out.threw
            /\ execLog[i].out.result.success = FALSE
            /\ Has(execLog[i].out.result, "error")
            /\ execLog[i].out.result.error # <<>>
            /\ ~Has(execLog[i].out.result, "data")
            /\ ~Has(execLog[i].out.result, "simulatedAction")
            /\ fsOps = {}
            /\ fs = InitFs

\* The executor was invoked with dryRun = false and a path inside the sandbox.
C14_Witness ==
    \E i \in DirectOf("fileWriteExecutor") :
        /\ ~execLog[i].context.dryRun
        /\ StrictlyInside(FullPath(execLog[i].input.path))
        /\ execLog[i].out.result.success = FALSE

\* C15: a file-read of a file larger than maxBytes is a failure that returns
\* no content; a file-read that succeeds returns the whole file, whose size
\* is within maxBytes.
C15_OversizeFailsSuccessIsWhole ==
    \A i \in DirectOf("fileReadExecutor") :
        LET full == FullPath(execLog[i].input.path)
            result == execLog[i].out.result
            isFile == full \in DOMAIN InitFs /\ InitFs[full].kind = "file"
        IN  /\ ~execLog[i].out.threw
            /\ isFile /\ Len(InitFs[full].content) > execLog[i].input.maxBytes =>
                  /\ result.success = FALSE
                  /\ Has(result, "error")
                  /\ ~Has(result, "data")
            /\ result.success = TRUE =>
                  /\ isFile
                  /\ Has(result, "data")
                  /\ result.data.content.bytes = InitFs[full].content
                  /\ result.data.size = Len(InitFs[full].content)
                  /\ result.data.size <= execLog[i].input.maxBytes

\* The sandbox's two-byte file was read with a budget of one byte.
C15_Witness ==
    \E i \in DirectOf("fileReadExecutor") :
        /\ FullPath(execLog[i].input.path) = SANDBOX_DIR \o <<SEP, "a">>
        /\ execLog[i].input.maxBytes = 1
        /\ execLog[i].out.result.success = FALSE

TaskTypes == {"system-diagnostic", "file-analysis", "change-proposal", "composite"}

\* The keyword categories that occur in a task text: those with a keyword
\* that is a word of the text, whatever the case of its letters.
CategoriesIn(task) ==
    {c \in {"system", "file", "change"} :
        \E i \in DOMAIN task :
            LowerWord(task[i]) \in (CASE c = "system" -> SystemKeywords
                                      [] c = "file" -> FileKeywords
                                      [] c = "change" -> ChangeKeywords)}

\* The label the classification rule gives a set of categories.
LabelOf(categories) ==
    IF Cardinality(categories) >= 2 THEN "composite"
    ELSE IF categories = {"system"} THEN "system-diagnostic"
    ELSE IF categories = {"file"} THEN "file-analysis"
    ELSE IF categories = {"change"} THEN "change-proposal"
    ELSE "system-diagnostic"

\* C16: classification is a total, deterministic function of the keyword
\* categories that occur in the task text: composite for two or more, the
\* category's own type for one, system-diagnostic for none; classifying the
\* same text again gives the same label.
C16_ClassificationByCategories ==
    /\ \A i \in 1..Len(labels) :
          /\ labels[i].label \in TaskTypes
          /\ labels[i].label = LabelOf(CategoriesIn(labels[i].task))
    /\ \A i, j \in 1..Len(labels) :
          labels[i].task = labels[j].task => labels[i].label = labels[j].label

\* A text with keywords of two categories, one of them capitalised, was
\* classified twice.
C16_Witness ==
    /\ Len(labels) = 2
    /\ labels[1].task = labels[2].task
    /\ Cardinality(CategoriesIn(labels[1].task)) = 2
    /\ toLowerCase(labels[1].task) # labels[1].task
    /\ labels[2].label = "composite"

\* The place of an agent in the fixed order of a composite run.
Rank(agent) ==
    CASE agent = "SystemInspector" -> 1
      [] agent = "FileAnalyst" -> 2
      [] agent = "ChangeProposer" -> 3

Composite == orch.taskType = "composite" /\ orch.pc \in {"step", "returned"}

\* C17: in a composite run the agents are invoked in the order
\* SystemInspector, FileAnalyst, ChangeProposer, none before one that
\* precedes it, and agentResults lists them in the order of invocation.
C17_CompositeOrderIsFixed ==
    Composite =>
        /\ \A i, j \in 1..Len(steps) : i < j => Rank(steps[i].agent) < Rank(steps[j].agent)
        /\ orch.pc = "returned" /\ orch.result.success =>
              /\ Len(orch.result.agentResults) = Len(steps)
              /\ \A i \in 1..Len(steps) :
                    orch.result.agentResults[i].agentName = steps[i].agent

\* A composite run of all three agents has returned its results.
C17_Witness ==
    /\ Composite
    /\ orch.pc = "returned"
    /\ orch.result.success
    /\ Len(steps) = 3
    /\ Len(orch.result.agentResults) = 3

\* text[from..] holds the texts of outs one after the other, each verbatim.
RECURSIVE ContainsInOrder(_, _, _)
ContainsInOrder(text, from, outs) ==
    IF Len(outs) = 0 THEN TRUE
    ELSE \E p \in from..(Len(text) - Len(outs[1]) + 1) :
            /\ SubSeq(text, p, p + Len(outs[1]) - 1) = outs[1]
            /\ ContainsInOrder(text, p + Len(outs[1]), Tail(outs))

\* C18: in a composite run the task handed to each step contains, verbatim
\* and in the order of invocation, the output of every step that completed
\* before it.
C18_StepTaskCarriesEarlierOutputs ==
    Composite =>
        \A j \in 1..Len(steps) :
            /\ \A i \in 1..(j - 1) : steps[i].status = "returned"
            /\ ContainsInOrder(steps[j].task, 1, [i \in 1..(j - 1) |-> steps[i].output])

\* The change-proposal step was started after the other two had returned.
C18_Witness ==
    /\ Composite
    /\ Len(steps) = 3
    /\ steps[3].agent = "ChangeProposer"
    /\ steps[1].output # <<>> /\ steps[2].output # <<>>
    /\ steps[1].output # steps[2].output

\* C19: when a step of a composite run throws, the run returns a failure
\* with the error message, no later step is invoked, and agentResults is
\* empty even when earlier steps completed.
C19_CompositeThrowAbortsWithoutResults ==
    Composite =>
        \A i \in 1..Len(steps) :
            steps[i].status = "threw" =>
                /\ i = Len(steps)
                /\ orch.pc = "returned"
                /\ orch.result.success = FALSE
                /\ Has(orch.result, "error")
                /\ orch.result.error # <<>>
                /\ orch.result.agentResults = <<>>

\* The second step of a composite run threw after the first had returned.
C19_Witness ==
    /\ Composite
    /\ Len(steps) >= 2
    /\ steps[1].status = "returned"
    /\ steps[Len(steps)].status = "threw"
    /\ orch.pc = "returned"

\* C20: when the health check reports the gateway unhealthy or cannot reach
\* it, run returns a failure with its fixed error message and no results,
\* and the run classifies nothing, invokes no agent and makes no tool call.
C20_UnhealthyReturnsAtOnce ==
    orch.health \in {"not-ok", "unreachable"} =>
        /\ orch.pc = "returned"
        /\ orch.result.success = FALSE
        /\ orch.result.error
              = <<"MCP server is not available. Please ensure it is running.">>
        /\ orch.result.agentResults = <<>>
        /\ labels = <<>>
        /\ steps = <<>>
        /\ attempts = <<>>
        /\ calls = <<>>

\* A run of a task with keywords found the gateway out of reach.
C20_Witness ==
    /\ orch.health = "unreachable"
    /\ orch.pc = "returned"
    /\ CategoriesIn(orch.input.task) # {}
    /\ ~Has(orch.input, "taskType")

\* The gateway calls issued through the wrappers of the agent of step i,
\* in call order.
DelegatedIn(i) ==
    SelectSeq([a \in 1..Len(attempts) |-> [at |-> a, outcome |-> attempts[a].outcome,
                                             tool |-> attempts[a].tool]],
              LAMBDA r : /\ r.at >= steps[i].firstAttempt
                         /\ r.at <= steps[i].lastAttempt
                         /\ r.outcome = "delegated")

SuccessfulRun == orch.pc = "returned" /\ orch.result.success

\* C21: in a successful run each agent's result lists the tool calls the
\* agent made during its step: one record per gateway call issued through
\* its wrappers, in call order.
C21_ToolCallsListed ==
    SuccessfulRun =>
        \A i \in 1..Len(orch.result.agentResults) :
            LET made == DelegatedIn(i)
                listed == orch.result.agentResults[i].toolCalls
            IN  /\ Len(listed) = Len(made)
                /\ \A n \in 1..Len(listed) :
                      Has(listed[n], "tool") /\ listed[n].tool = made[n].tool

\* C22: the finalOutput of a successful run is the one agent's output
\* verbatim when exactly one agent ran; when several ran it holds one section
\* per agent, labeled with the agent's name and holding its output, in the
\* order of invocation.
C22_FinalOutputIsSynthesis ==
    SuccessfulRun =>
        LET results == orch.result.agentResults
        IN  /\ Len(results) = 1 => orch.result.finalOutput = results[1].output
            /\ Len(results) >= 2 =>
                  ContainsInOrder(orch.result.finalOutput, 1,
                                  [i \in 1..Len(results) |->
                                      <<results[i].agentName, "\n\n">> \o results[i].output])

\* A run of several agents has returned its synthesis.
C22_Witness ==
    /\ SuccessfulRun
    /\ Len(orch.result.agentResults) >= 2
    /\ \A i \in 1..Len(orch.result.agentResults) : orch.result.agentResults[i].output # <<>>

\* C23: the router never retries: within one run each agent is invoked at
\* most once, and once a step has thrown no agent is invoked again.
C23_NoRetry ==
    /\ \A i, j \in 1..Len(steps) : i # j => steps[i].agent # steps[j].agent
    /\ \A i \in 1..Len(steps) :
          steps[i].status = "threw" =>
              /\ i = Len(steps)
              /\ orch.pc = "returned"
              /\ ~orch.result.success

\* The one step of a single-purpose run threw and the run has returned.
C23_Witness ==
    /\ orch.pc = "returned"
    /\ orch.taskType \in {"system-diagnostic", "file-analysis", "change-proposal"}
    /\ Len(steps) = 1
    /\ steps[1].status = "threw"

\* C24: within one run no two steps are active at the same time: a step is
\* started only after the step before it has returned or thrown.
C24_OneStepAtATime ==
    /\ \A i \in 1..(Len(steps) - 1) : steps[i].status \in {"returned", "threw"}
    /\ Cardinality({i \in 1..Len(steps) : steps[i].status = "active"}) <= 1
    /\ \A i \in 1..Len(steps) : steps[i].status = "active" => orch.pc = "step"

\* The second step of a run is active, with a tool call of its agent at the
\* gateway, after the first step returned.
C24_Witness ==
    /\ Len(steps) = 2
    /\ steps[1].status = "returned"
    /\ steps[2].status = "active"
    /\ \E k \in CallIds : calls[k].origin = steps[2].agent /\ calls[k].pc = "executing"

\* C25: every invocation the gateway handles has a requestId no other
\* invocation has: no two responses and no two audit entries of distinct
\* calls share one, whatever headers the callers send.
C25_RequestIdsAreUnique ==
    /\ \A k, l \in CallIds : k # l => calls[k].requestId # calls[l].requestId
    /\ \A k, l \in CallIds :
          /\ k # l /\ Responded(k) /\ Responded(l)
          /\ Has(calls[k].response, "requestId") /\ Has(calls[l].response, "requestId")
          => calls[k].response.requestId # calls[l].response.requestId
    /\ \A i, j \in 1..Len(auditLog) : i # j => auditLog[i].requestId # auditLog[j].requestId

\* C26: a file-write invocation whose inputs pass the tool's input schema
\* and whose path resolves inside the sandbox is answered with success = true,
\* dryRun = true and a simulatedAction that says what would be written where,
\* and no file is created or modified.
C26_FileWriteInsideIsSimulated ==
    \A k \in CallIds :
        /\ Responded(k) /\ calls[k].toolName = "file-write"
        /\ SchemaVerdict(k).ok
        /\ ~Outside(FullPath(SchemaVerdict(k).value.path))
        => /\ calls[k].status = 200
           /\ Has(calls[k].response, "success") /\ calls[k].response.success = TRUE
           /\ Has(calls[k].response, "dryRun") /\ calls[k].response.dryRun = TRUE
           /\ Has(calls[k].response, "simulatedAction")
           /\ calls[k].response.simulatedAction # EmptyObj
           /\ calls[k].response.simulatedAction.to = FullPath(SchemaVerdict(k).value.path)
           /\ calls[k].response.simulatedAction.bytes
                 = ByteLength(SchemaVerdict(k).value.content)
           /\ fs = InitFs
           /\ \A o \in fsOps : o.call # k

\* A file-write of a file strictly inside the sandbox was answered.
C26_Witness ==
    \E k \in CallIds :
        /\ Responded(k) /\ calls[k].toolName = "file-write"
        /\ SchemaVerdict(k).ok
        /\ StrictlyInside(FullPath(SchemaVerdict(k).value.path))
        /\ Has(calls[k].response, "simulatedAction")

\* What the executor of call k returned, when it returned: the executors
\* leave the files as they are, and only the host's state may vary.
ResultsOf(k) ==
    {Execute(calls[k].executor, calls[k].input, calls[k].context, fs, os).result :
        os \in {o \in OsStates :
                  ~Execute(calls[k].executor, calls[k].input, calls[k].context, fs, o).threw}}

\* C27: a response carries simulatedAction only if the executor populated it
\* in its result; so every response that carries one has dryRun = true, and
\* no response of a safe tool and no failure response carries one.
C27_SimulatedActionOnlyFromExecutor ==
    \A k \in CallIds :
        Responded(k) /\ Has(calls[k].response, "simulatedAction") =>
            /\ Executed(k)
            /\ ~calls[k].settled.threw
            /\ \E r \in ResultsOf(k) :
                  /\ Has(r, "simulatedAction")
                  /\ r.simulatedAction = calls[k].response.simulatedAction
            /\ calls[k].response.dryRun = TRUE
            /\ Dangerous(calls[k].toolName)
            /\ calls[k].response.success = TRUE
            /\ calls[k].status = 200

\* A simulated file-write and a failed read of a missing file were answered.
C27_Witness ==
    \E k1, k2 \in CallIds :
        /\ Responded(k1) /\ Has(calls[k1].response, "simulatedAction")
        /\ Responded(k2) /\ Executed(k2) /\ calls[k2].status = 422
        /\ ~Dangerous(calls[k2].toolName)
        /\ ~Has(calls[k2].response, "simulatedAction")

\* C28: the response of every invocation that reached an executor carries
\* an error message exactly when its success is false, and so does the
\* invocation's audit entry.
C28_ErrorIffNotSuccess ==
    \A k \in CallIds :
        Responded(k) /\ Executed(k) =>
            /\ Has(calls[k].response, "success")
            /\ (Has(calls[k].response, "error") /\ calls[k].response.error # <<>>)
                  <=> (calls[k].response.success = FALSE)
            /\ Has(calls[k].response, "error") => calls[k].response.success = FALSE
            /\ \A i \in EntriesOf(k) :
                  Has(auditLog[i], "error") <=> (calls[k].response.success = FALSE)

\* Two calls were answered: one whose executor threw, one that succeeded.
C28_Witness ==
    \E k1, k2 \in CallIds :
        /\ Responded(k1) /\ Executed(k1) /\ calls[k1].settled.threw
        /\ Has(calls[k1].response, "error")
        /\ Responded(k2) /\ Executed(k2) /\ calls[k2].status = 200
        /\ ~Has(calls[k2].response, "error")

\* The agents of the categories that occur in a task text, in the fixed order.
AgentsFor(task) ==
    SelectSeq(<<"system", "file", "change">>, LAMBDA c : c \in CategoriesIn(task))

AgentNameOf(category) ==
    CASE category = "system" -> "SystemInspector"
      [] category = "file" -> "FileAnalyst"
      [] category = "change" -> "ChangeProposer"

AutoComposite ==
    /\ orch.pc \in {"step", "returned"}
    /\ ~Has(orch.input, "taskType")
    /\ orch.taskType = "composite"

\* C29: when a run classifies its task as composite by itself, the agents
\* invoked are exactly those whose keyword category occurs in the task text,
\* at least two, in the fixed order, and the final output holds a labeled
\* section for each of them.
C29_AutoCompositeInvokesItsCategories ==
    AutoComposite =>
        LET expected == AgentsFor(orch.input.task)
        IN  /\ Len(expected) >= 2
            /\ Len(steps) <= Len(expected)
            /\ \A i \in 1..Len(steps) : steps[i].agent = AgentNameOf(expected[i])
            /\ SuccessfulRun =>
                  /\ Len(steps) = Len(expected)
                  /\ ContainsInOrder(orch.result.finalOutput, 1,
                                      [i \in 1..Len(expected) |->
                                          <<"## ", ToString(i), ". ", AgentNameOf(expected[i])>>])

\* A task with a system keyword and a change keyword, and no file keyword,
\* was run to its successful return.
C29_Witness ==
    /\ AutoComposite
    /\ SuccessfulRun
    /\ CategoriesIn(orch.input.task) = {"system", "change"}
    /\ Len(steps) = 2
    /\ steps[1].agent = "SystemInspector" /\ steps[2].agent = "ChangeProposer"

\* C30: the file-write executor checks the path before it looks at dryRun:
\* for a path that resolves outside the sandbox it returns success = false
\* with the path-escape error and no simulatedAction, under dryRun = true as
\* under dryRun = false; a simulation is produced only for a path that passed
\* the check, under dryRun = true.
C30_SandboxCheckBeforeDryRun ==
    \A i \in DirectOf("fileWriteExecutor") :
        LET result == execLog[i].out.result
        IN  /\ Outside(FullPath(execLog[i].input.path)) =>
                  /\ ~execLog[i].out.threw
                  /\ result.success = FALSE
                  /\ Has(result, "error") /\ result.error = PathEscapeMessage
                  /\ ~Has(result, "simulatedAction")
                  /\ ~Has(result, "data")
            /\ Has(result, "simulatedAction") =>
                  /\ ~Outside(FullPath(execLog[i].input.path))
                  /\ execLog[i].context.dryRun
                  /\ result.success = TRUE

\* The executor was invoked under dryRun = true with a path that leaves the
\* sandbox.
C30_Witness ==
    \E i \in DirectOf("fileWriteExecutor") :
        /\ execLog[i].context.dryRun
        /\ Outside(FullPath(execLog[i].input.path))
        /\ HasDotDotSegment(execLog[i].input.path)
        /\ execLog[i].out.result.success = FALSE

\* C31: no request to the gateway changes the registry: after any invoke,
\* list-definitions and get-definition requests, whatever their outcomes, the
\* registered tools and their definition/executor pairs are those of startup.
C31_RegistryReadOnlyAfterStartup ==
    /\ toolRegistry = StartupRegistry
    /\ DOMAIN toolRegistry = {"system-info", "file-read", "file-write"}
    /\ \A g \in 1..Len(gets) :
          gets[g].route = "/mcp/tools" => gets[g].reply.count = 3

\* A definition was asked for under a name that is not registered, the list
\* was asked for, and an invocation was executed and answered.
C31_Witness ==
    /\ \E g \in 1..Len(gets) : gets[g].status = 404
    /\ \E g \in 1..Len(gets) : gets[g].route = "/mcp/tools"
    /\ \E k \in CallIds : Responded(k) /\ Executed(k)

\* A run that got past the health check: its task type is resolved.
Resolved == orch.pc = "step" \/ (orch.pc = "returned" /\ orch.health = "ok")

SinglePurpose == {"system-diagnostic", "file-analysis", "change-proposal"}

\* C32: a run given an explicit taskType uses it and never classifies the
\* text: for an explicit single-purpose type the only agent ever started is
\* the one of that type, once, whatever keywords the task holds, and a
\* successful run reports that one agent; the text is classified exactly when
\* no type is supplied.
C32_ExplicitTaskTypeIsUsed ==
    Resolved =>
        IF Has(orch.input, "taskType")
            THEN /\ orch.taskType = orch.input.taskType
                 /\ labels = <<>>
                 /\ orch.taskType \in SinglePurpose =>
                        /\ Len(steps) = 1
                        /\ steps[1].agent = AgentOf(StageOfType(orch.input.taskType))
                        /\ SuccessfulRun =>
                               /\ Len(orch.result.agentResults) = 1
                               /\ orch.result.agentResults[1].agentName = steps[1].agent
                               /\ orch.result.taskType = orch.input.taskType
        ELSE /\ orch.taskType = classifyTask(orch.input.task)
             /\ Len(labels) = 1
             /\ labels[1] = [task |-> orch.input.task, label |-> orch.taskType]

\* An explicit file-analysis run of a task whose text says "system" returned
\* after its one agent, the FileAnalyst.
C32_Witness ==
    /\ SuccessfulRun
    /\ orch.input = [task |-> <<"check", "System">>, taskType |-> "file-analysis"]
    /\ classifyTask(orch.input.task) = "system-diagnostic"
    /\ Len(steps) = 1 /\ steps[1].agent = "FileAnalyst"

\* C33: the context supplied with a task reaches the agents: whatever the
\* task type, the task handed to every agent that is started contains
\* input.context when the input carries one.
C33_ContextReachesEveryAgent ==
    Has(orch.input, "context") =>
        \A i \in 1..Len(steps) :
            ContainsInOrder(steps[i].task, 1, <<orch.input.context>>)

\* C34: the wrappers' schemas match what the gateway expects: a call that a
\* wrapper's schema let through to the gateway, for a registered tool, is
\* never refused by that tool's input schema at the gateway.
C34_WrapperSchemasMatchGateway ==
    \A a \in 1..Len(attempts) :
        attempts[a].outcome = "delegated" /\ Matched(attempts[a].call) =>
            /\ WrapperSchema(attempts[a].tool, RawInputs(attempts[a].call)).ok
            /\ SchemaVerdict(attempts[a].call).ok
            /\ calls[attempts[a].call].status # 400

\* Something failed in the run: the gateway was not healthy, or the creation
\* or the run of an agent threw.
SomethingFailed ==
    \/ orch.health \in {"not-ok", "unreachable"}
    \/ \E i \in 1..Len(steps) : steps[i].status = "threw"

\* C35: run never throws or rejects: however the health check ends and
\* whatever an agent returns or throws, a run that is over has returned an
\* OrchestratorResult; the result has success = false and an error message
\* when something failed, and success = true and no error otherwise;
\* a run in progress is at one of its awaits, where a failure is handled.
C35_RunAlwaysReturnsAResult ==
    /\ orch.pc \in {"idle", "health", "step", "returned"}
    /\ orch.pc = "health" => ENABLED HealthSettles
    /\ orch.pc = "step" => ENABLED StepThrows
    /\ orch.pc = "returned" =>
          /\ {"success", "taskType", "agentResults", "finalOutput", "totalDurationMs"}
                \subseteq DOMAIN orch.result
          /\ orch.result.success \in BOOLEAN
          /\ orch.result.taskType \in TaskTypes
          /\ orch.result.totalDurationMs >= 0
          /\ IF SomethingFailed
                THEN /\ orch.result.success = FALSE
                     /\ Has(orch.result, "error")
                     /\ Len(orch.result.error) = 1
             ELSE orch.result.success = TRUE /\ ~Has(orch.result, "error")

\* A run ended by an agent that threw a value that is not an Error.
C35_Witness ==
    /\ orch.pc = "returned"
    /\ \E i \in 1..Len(steps) : steps[i].status = "threw"
    /\ orch.result.success = FALSE
    /\ orch.result.error = <<"Unknown error">>

\* C36: a run that returns success = true has invoked at least one agent:
\* its agentResults are not empty and an agent's step was run, whatever the
\* input, an explicit composite type with a text without keywords included.
C36_SuccessMeansAnAgentRan ==
    SuccessfulRun =>
        /\ Len(orch.result.agentResults) >= 1
        /\ Len(steps) >= 1

\* C37: a run that fails after its task type was resolved reports that type,
\* the explicit one or the one classifyTask found, as a successful run does.
C37_FailedRunReportsResolvedType ==
    orch.pc = "returned" /\ Resolved =>
        /\ orch.taskType = ResolveTaskType(orch.input)
        /\ orch.result.taskType = orch.taskType

\* Call k is a well-formed request that names a tool the registry does not hold.
NotFound(k) ==
    /\ ToolCallRequestSchema(calls[k].body).ok
    /\ ~has(toolRegistry, ToolCallRequestSchema(calls[k].body).value.tool)

DefaultedFields(toolName) ==
    CASE toolName = "system-info" -> {"include"}
      [] toolName = "file-read" -> {"maxBytes"}
      [] OTHER -> {}

\* C39: the intent of an audit entry is the caller's intent when the request
\* carries a non-empty one, and the matched tool's documented intent when the
\* request carries none or an empty one; the inputs of the entry are the
\* inputs as the tool's schema returned them, defaults filled in.
C39_AuditIntentAndValidatedInputs ==
    \A k \in CallIds :
        Responded(k) /\ Executed(k) =>
            /\ EntriesOf(k) # {}
            /\ \A i \in EntriesOf(k) :
                  /\ auditLog[i].intent
                        = IF Has(calls[k].body, "intent") /\ calls[k].body.intent # <<>>
                              THEN calls[k].body.intent
                          ELSE toolRegistry[calls[k].toolName].definition.intent
                  /\ auditLog[i].intent # <<>>
                  /\ auditLog[i].inputs = SchemaVerdict(k).value
                  /\ DefaultedFields(calls[k].toolName) \subseteq DOMAIN auditLog[i].inputs

\* Two audited calls: one with the caller's intent and a defaulted maxBytes
\* that the caller did not send, and one with an empty intent, recorded with
\* the tool's documented intent.
C39_Witness ==
    \E k1, k2 \in CallIds :
        /\ Responded(k1) /\ Executed(k1)
        /\ calls[k1].body.tool = "file-read"
        /\ Has(calls[k1].body, "intent") /\ calls[k1].body.intent = <<"caller intent">>
        /\ ~Has(RawInputs(k1), "maxBytes")
        /\ \E i \in EntriesOf(k1) :
              /\ auditLog[i].intent = <<"caller intent">>
              /\ auditLog[i].inputs.maxBytes = DefaultMaxBytes
        /\ Responded(k2) /\ Executed(k2)
        /\ Has(calls[k2].body, "intent") /\ calls[k2].body.intent = <<>>
        /\ \E i \in EntriesOf(k2) :
              auditLog[i].intent = toolRegistry[calls[k2].toolName].definition.intent

====
